---- MODULE Spec2Model ----
(***************************************************************************)
(* State-machine model of the RAG pipeline of rag-api: the vector index    *)
(* and its metadata filter (DocumentService.search), citation-numbered     *)
(* answer synthesis (AIService.retrieve_answer) and the chat turn          *)
(* (ChatService.send_message) with its two commits and the auto-title.     *)
(***************************************************************************)
EXTENDS Integers, Sequences, FiniteSets, TLC

VARIABLES
    documents,       \* persisted document rows: document id -> row
    index,           \* the vector store: a set of chunks (page_content + metadata)
    chats,           \* committed chat rows: chat id -> row, or NoRow
    chat_documents,  \* committed chat<->document association rows
    messages,        \* committed message rows
    turns,           \* request-local state of every send_message call
    now,             \* the clock read by datetime.utcnow()
    call,            \* the last direct call of a service function and its result
    blobs,           \* the blob container: the names of the stored blobs
    tasks,           \* the background ingestion task of every document
    uploads,         \* the upload request of every document and its response
    deletes,         \* the delete request of every document
    projects,        \* the projects created so far: project id -> whether its row exists
    requests         \* the create, update, delete and add-documents request of every chat

jobvars == <<blobs, tasks, uploads, deletes, projects, requests>>
vars == <<documents, index, chats, chat_documents, messages, turns, now, call, jobvars>>

----------------------------------------------------------------------------
(* Bounds and program constants *)

MaxTurns == 2           \* send_message calls in one behaviour
MaxRetrieved == 4       \* length of a chunk list handed directly to retrieve_answer
MaxDirectK == 2         \* largest k below the default tried by a direct search call
MaxOver == 1            \* messages a chat holds beyond the default page limit
MaxPages == 3           \* pages of a file handed directly to the extractor

DefaultK == 5           \* chat_service.py:94  k=5
HistoryWindow == 10     \* ai_service.py:90    chat_history[-10:]
DefaultLimit == 100     \* repositories.py:183 limit: int = 100

----------------------------------------------------------------------------
(* Identifiers.  UUIDs are numbers; str(uuid) is their decimal text. *)

ProjectIds == {1, 2}
DocIds == {11, 12, 13}
ChatIds == {21}
Turns == 1..MaxTurns

str(uuid) == ToString(uuid)

\* Optional[list]: None or a list
None == [is_none |-> TRUE, val |-> <<>>]
Some(l) == [is_none |-> FALSE, val |-> l]
\* Python truthiness of an Optional[list]: None and [] are falsy
Truthy(opt) == ~opt.is_none /\ Len(opt.val) > 0

Range(s) == {s[i] : i \in 1..Len(s)}
Min(a, b) == IF a <= b THEN a ELSE b

\* {}
EmptyDict == [k \in {} |-> {}]

\* dict.get(key, default)
Get(d, key, default) == IF key \in DOMAIN d THEN d[key] ELSE default

\* the arguments of calls: lists of document ids without repetition, of length <= 2
DocIdLists ==
    {<<>>} \cup {<<d>> : d \in DocIds}
           \cup {<<p[1], p[2]>> : p \in {q \in DocIds \X DocIds : q[1] # q[2]}}
DocIdArgs == {None} \cup {Some(l) : l \in DocIdLists}
KArgs == (1..MaxDirectK) \cup {DefaultK}

BoundedSeq(S, n) == UNION {[1..m -> S] : m \in 0..n}

----------------------------------------------------------------------------
(* The corpus: the project and name of every document and the chunk texts  *)
(* the splitter yields for its file.                                       *)

NewChat == "New Chat"
Texts == {"t1", "t2"}

ProjectOf(d) == IF d = 13 THEN 2 ELSE 1
NameOf(d) == "doc-" \o ToString(d) \o ".txt"
SplitsOf(d) == CASE d = 11 -> <<"t1">>
                 [] d = 12 -> <<"t2", "t1">>
                 [] OTHER  -> <<"t2">>

\* DocumentStatus
IN_PROGRESS == "In progress"
SUCCESSFUL == "Successful"

\* DocumentRepository.create / finish_embedding: the row of a document
DocumentRow(d, ingested) ==
    [exists |-> TRUE, project_id |-> ProjectOf(d), name |-> NameOf(d), file_type |-> "txt",
     chunk_count |-> IF ingested THEN Len(SplitsOf(d)) ELSE 0,
     status |-> IF ingested THEN SUCCESSFUL ELSE IN_PROGRESS]

add_metadata_zero_based(splits, d, row, project_id) ==
    { [page_content |-> splits[idx],
       metadata |-> [document_id |-> str(d),
                     document_name |-> row.name,
                     project_id |-> str(project_id),
                     chunk_id |-> str(d) \o ":" \o ToString(idx - 1),
                     chunk_index |-> idx - 1]] : idx \in 1..Len(splits) }

\* DocumentService._add_metadata: the chunks of document d, tagged
add_metadata(splits, d, row, project_id) ==
    { [page_content |-> splits[idx],
       metadata |-> [document_id |-> str(d),
                     document_name |-> row.name,
                     project_id |-> str(project_id),
                     chunk_id |-> str(d) \o ":" \o ToString(idx),
                     chunk_index |-> idx]] : idx \in 1..Len(splits) }

\* DocumentService.save_document_vectors, completed: what it adds to the index
IngestedChunks(d) == add_metadata(SplitsOf(d), d, DocumentRow(d, TRUE), ProjectOf(d))

\* the index after the documents of D were ingested
IndexOf(D) == UNION {IngestedChunks(d) : d \in D}

----------------------------------------------------------------------------
(* The vector store: metadata filter and similarity search *)

\* similarity of a chunk to a query (higher is nearer)
Similarity(query, chunk) == IF chunk.page_content = query THEN 1 ELSE 0

\* the filter language of the store: {"k": v}, {"k": {"$in": [..]}}, {"$and": [..]}
RECURSIVE FilterMatches(_, _)
FilterMatches(f, md) ==
    CASE f.op = "$and" -> \A i \in 1..Len(f.clauses) : FilterMatches(f.clauses[i], md)
      [] f.op = "$in"  -> f.field \in DOMAIN md /\ md[f.field] \in Range(f.value)
      [] OTHER         -> f.field \in DOMAIN md /\ md[f.field] = f.value

\* vector_store.similarity_search(query, k, filter): every ranking the store may
\* return: min(k, matches) distinct matching chunks, nearest first, none left out
\* that is nearer than one returned; the order among equally near chunks is the
\* store's choice
RECURSIVE Rankings(_, _, _)
Rankings(cands, query, k) ==
    IF k = 0 \/ cands = {} THEN {<<>>}
    ELSE LET best == {c \in cands :
                        \A o \in cands : Similarity(query, o) <= Similarity(query, c)}
         IN UNION { { <<c>> \o r : r \in Rankings(cands \ {c}, query, k - 1) }
                    : c \in best }

similarity_search(store, query, k, filter) ==
    Rankings({c \in store : FilterMatches(filter, c.metadata)}, query, k)

\* DocumentService.search: the filter it builds
search_filter_docs_only(project_id, document_ids) ==
    IF Truthy(document_ids)
    THEN [op |-> "$in", field |-> "document_id",
          value |-> [i \in 1..Len(document_ids.val) |-> str(document_ids.val[i])]]
    ELSE [op |-> "$eq", field |-> "project_id", value |-> str(project_id)]

search_filter(project_id, document_ids) ==
    IF Truthy(document_ids)
    THEN [op |-> "$and", clauses |-> <<
            [op |-> "$eq", field |-> "project_id", value |-> str(project_id)],
            [op |-> "$in", field |-> "document_id",
             value |-> [i \in 1..Len(document_ids.val) |-> str(document_ids.val[i])]] >>]
    ELSE [op |-> "$eq", field |-> "project_id", value |-> str(project_id)]

\* DocumentService.search: the set of results the call may return
search(store, query, project_id, document_ids, k) ==
    similarity_search(store, query, k, search_filter(project_id, document_ids))

----------------------------------------------------------------------------
(* Initial states *)

NoRow == [exists |-> FALSE]
NoCall == [op |-> "none"]
NoMsg == [exists |-> FALSE]
NoResponse == [kind |-> "none"]
NoPending == [dirty |-> FALSE]
NoBody == [sent |-> FALSE]

\* the requests of a chat other than its turns: none made, and the chat created
\* with no other request made
NoRequests ==
    [create |-> [pc |-> "none"], update |-> [pc |-> "none"], delete |-> "none", add |-> "none"]
CreatedRequests == [NoRequests EXCEPT !.create = [pc |-> "done"]]

\* the request-local state of a send_message call that has not been made
NoTurn ==
    [pc |-> "idle", chat_id |-> 0, content |-> "", auto_title |-> TRUE,
     chat0 |-> NoRow, prior |-> 0, human |-> NoMsg, document_ids |-> <<>>,
     chat |-> NoRow, docs |-> <<>>, history |-> <<>>, response |-> NoResponse,
     answer |-> "", sources |-> EmptyDict, llm_calls |-> 0,
     pending_ai |-> NoMsg, pending_chat |-> NoPending,
     title_response |-> NoResponse, title_calls |-> 0,
     error |-> "", returned |-> FALSE, body |-> NoBody]

\* the background task of a document: not scheduled, scheduled by the upload,
\* and returned after a completed ingestion
NoTask == [pc |-> "none", document |-> NoRow, splits |-> <<>>, error |-> ""]
ScheduledTask == [NoTask EXCEPT !.pc = "scheduled"]
FinishedTask(d) ==
    [pc |-> "finished", document |-> DocumentRow(d, TRUE), splits |-> SplitsOf(d),
     error |-> ""]

NoUpload == [status |-> "none"]
NoDelete == [pc |-> "none", vectors_raised |-> FALSE, error |-> ""]

\* f"{project_id}/{document.id}.{document.file_type}"
BlobName(d, document) ==
    str(document.project_id) \o "/" \o str(d) \o "." \o document.file_type

\* routes.documents._to_response
to_response(d, document) ==
    [id |-> d, project_id |-> document.project_id, name |-> document.name,
     file_type |-> document.file_type, chunk_count |-> document.chunk_count,
     status |-> document.status]

\* every document of the corpus was uploaded and those of D were ingested
StoreAfter(D) ==
    /\ documents = [d \in DocIds |-> DocumentRow(d, d \in D)]
    /\ index = IndexOf(D)
    /\ blobs = {BlobName(d, DocumentRow(d, FALSE)) : d \in DocIds}
    /\ tasks = [d \in DocIds |-> IF d \in D THEN FinishedTask(d) ELSE ScheduledTask]
    /\ uploads = [d \in DocIds |->
                    [status |-> "ok", response |-> to_response(d, DocumentRow(d, FALSE))]]
    /\ deletes = [d \in DocIds |-> NoDelete]
    /\ projects = [p \in ProjectIds |-> TRUE]

\* the documents of the corpus are uploaded and any subset of them is ingested
InitStore == \E D \in SUBSET DocIds : StoreAfter(D)

InitRest ==
    /\ chats = [c \in ChatIds |-> NoRow]
    /\ requests = [c \in ChatIds |-> NoRequests]
    /\ chat_documents = {}
    /\ messages = {}
    /\ turns = [t \in Turns |-> NoTurn]
    /\ now = 0
    /\ call = NoCall

----------------------------------------------------------------------------
(* AIService.retrieve_answer *)

INSUFFICIENT == "I couldn't find any relevant information in the documents to answer your question."
SEPARATOR == "\n\n---\n\n"

\* str() of a value that already is a string
str_of_str(s) == s

\* SYSTEM_PROMPT.format(context=context): the instruction text, then the context
SYSTEM_PROMPT(context) == "Pravila ... Kontekst iz dokumentov:\n" \o context

SystemMessage(content) == [role |-> "system", content |-> content]
HumanMessage(content) == [role |-> "human", content |-> content]
AIMessage(content) == [role |-> "ai", content |-> content]

\* the outcomes of llm.invoke: a response with a content, or an exception
LLMResponses == {[kind |-> "ok", content |-> "answer-1"], [kind |-> "raise"]}

doc_key_per_chunk(doc) ==
    Get(doc.metadata, "chunk_id", Get(doc.metadata, "document_name", "Unknown"))

\* doc_key = document_id or doc_name
doc_key(doc) ==
    LET doc_name == Get(doc.metadata, "document_name", "Unknown")
        document_id == Get(doc.metadata, "document_id", "")
    IN IF document_id # "" THEN document_id ELSE doc_name

\* the citation loop over docs[i..]: st holds document_to_ref, source_refs,
\* context_parts and ref_counter
RECURSIVE CitationLoop(_, _, _)
CitationLoop(docs, i, st) ==
    IF i > Len(docs) THEN st
    ELSE LET doc == docs[i]
             doc_name == Get(doc.metadata, "document_name", "Unknown")
             document_id == Get(doc.metadata, "document_id", "")
             key == doc_key(doc)
             fresh == key \notin DOMAIN st.document_to_ref
             to_ref == IF fresh THEN st.document_to_ref @@ (key :> st.ref_counter)
                       ELSE st.document_to_ref
             refs == IF fresh
                     THEN st.source_refs @@
                            (ToString(st.ref_counter) :>
                                [document_id |-> str_of_str(document_id),
                                 document_title |-> str_of_str(doc_name)])
                     ELSE st.source_refs
             ref_num == to_ref[key]
             part == "[" \o ToString(ref_num) \o "] " \o doc_name \o "\n" \o doc.page_content
         IN CitationLoop(docs, i + 1,
                [document_to_ref |-> to_ref, source_refs |-> refs,
                 context_parts |-> Append(st.context_parts, part),
                 ref_counter |-> IF fresh THEN st.ref_counter + 1 ELSE st.ref_counter])

Citations(docs) ==
    CitationLoop(docs, 1, [document_to_ref |-> EmptyDict, source_refs |-> EmptyDict,
                           context_parts |-> <<>>, ref_counter |-> 1])

\* sep.join(parts)
RECURSIVE Join(_, _)
Join(parts, sep) ==
    IF Len(parts) = 0 THEN ""
    ELSE IF Len(parts) = 1 THEN parts[1]
    ELSE parts[1] \o sep \o Join(Tail(parts), sep)

LastN_takes_first(lst, n) == SubSeq(lst, 1, Min(n, Len(lst)))

\* lst[-n:]
LastN(lst, n) == SubSeq(lst, Len(lst) - Min(n, Len(lst)) + 1, Len(lst))

\* the message list handed to the language model
BuildMessages(question, context, chat_history) ==
    IF Truthy(chat_history)
    THEN LET window == LastN(chat_history.val, HistoryWindow)
         IN <<SystemMessage(SYSTEM_PROMPT(context))>>
            \o [j \in 1..Len(window) |->
                  IF window[j].role = "human" THEN HumanMessage(window[j].content)
                  ELSE AIMessage(window[j].content)]
            \o <<HumanMessage(question)>>
    ELSE <<SystemMessage(SYSTEM_PROMPT(context)), HumanMessage(question)>>

\* retrieve_answer past its empty-retrieval guard: citations, context, message
\* list and the one model invocation, whose outcome is `response`
synthesize(question, docs, chat_history, response) ==
    LET st == Citations(docs)
        llm_input == BuildMessages(question, Join(st.context_parts, SEPARATOR), chat_history)
    IN IF response.kind = "raise"
       THEN [raised |-> TRUE, llm_calls |-> 1, llm_input |-> llm_input,
             context_parts |-> st.context_parts]
       ELSE [raised |-> FALSE, answer |-> response.content, source_refs |-> st.source_refs,
             llm_calls |-> 1, llm_input |-> llm_input, context_parts |-> st.context_parts]

retrieve_answer_unguarded(question, docs, chat_history, response) ==
    synthesize(question, docs, chat_history, response)

\* AIService.retrieve_answer with the outcome `response` of the model call, should
\* one be made: the value returned or the exception raised, the list handed to the
\* model and the number of model invocations
retrieve_answer(question, docs, chat_history, response) ==
    IF Len(docs) = 0
    THEN [raised |-> FALSE, answer |-> INSUFFICIENT, source_refs |-> EmptyDict,
          llm_calls |-> 0, llm_input |-> <<>>, context_parts |-> <<>>]
    ELSE synthesize(question, docs, chat_history, response)

----------------------------------------------------------------------------
(* AIService.generate_chat_title *)

\* the characters str.strip() removes, up to U+00A0: space, \n, \t, \r, \f, U+000B,
\* U+001C..U+001F, U+0085 and U+00A0, the last seven written as themselves (the
\* spaces of Unicode beyond U+00A0 cannot be written in a string of the module)
WHITESPACE ==
    {" ", "\n", "\t", "\r", "\f", "", "", "", "", "", "", " "}
QUOTES == {"\"", "'"}

\* s.strip(chars): drop the characters of chars from both ends of s
RECURSIVE LStrip(_, _)
LStrip(s, chars) ==
    IF Len(s) > 0 /\ SubSeq(s, 1, 1) \in chars THEN LStrip(SubSeq(s, 2, Len(s)), chars)
    ELSE s
RECURSIVE RStrip(_, _)
RStrip(s, chars) ==
    IF Len(s) > 0 /\ SubSeq(s, Len(s), Len(s)) \in chars
    THEN RStrip(SubSeq(s, 1, Len(s) - 1), chars)
    ELSE s
Strip(s, chars) == RStrip(LStrip(s, chars), chars)

TitleMax == 50          \* ai_service.py:118  if len(title) > 50
TitleKeep == 47         \* ai_service.py:119  title[:47] + "..."
PromptMax == 200        \* ai_service.py:110  first_message[:200]

\* the outcomes of the title call of the model
TitleResponses ==
    {[kind |-> "ok", content |-> " \"Title A\"\n"], [kind |-> "ok", content |-> "  "],
     [kind |-> "raise"]}

\* AIService.generate_chat_title with the outcome `response` of its model call
generate_chat_title(first_message, response) ==
    LET prompt == "Generate a short, descriptive title ...\"" \o
                  SubSeq(first_message, 1, Min(PromptMax, Len(first_message))) \o
                  "\" ..."
    IN IF response.kind = "raise" THEN [raised |-> TRUE, prompt |-> prompt]
       ELSE LET stripped == Strip(Strip(response.content, WHITESPACE), QUOTES)
                title == IF Len(stripped) > TitleMax
                         THEN SubSeq(stripped, 1, TitleKeep) \o "..."
                         ELSE stripped
            IN [raised |-> FALSE, prompt |-> prompt,
                title |-> IF title = "" THEN NewChat ELSE title]

----------------------------------------------------------------------------
(* Repositories *)

HUMAN == "human"
AI == "ai"

\* ORDER BY created_at ASC leaves the order of rows of one created_at to the
\* database: a tie-break ranks the rows that share their created_at with another
Tied(ms) == {m \in ms : \E o \in ms : o # m /\ o.created_at = m.created_at}
TieBreaks(ms) ==
    {tb \in [Tied(ms) -> 1..Cardinality(Tied(ms))] :
        \A m, o \in Tied(ms) : m # o => tb[m] # tb[o]}

\* o is yielded before m under the tie-break tb
YieldedBefore(o, m, tb) ==
    \/ o.created_at < m.created_at
    \/ o.created_at = m.created_at /\ o # m /\ tb[o] < tb[m]

\* the rows of ms ordered by created_at ascending under the tie-break tb: the
\* i-th row is the one that i - 1 rows precede
OrderByCreatedAt(ms, tb) ==
    [i \in 1..Cardinality(ms) |->
        CHOOSE m \in ms : Cardinality({o \in ms : YieldedBefore(o, m, tb)}) = i - 1]

\* MessageRepository.get_by_chat(session, chat_id, skip, limit): the results the
\* query may yield
get_by_chat(msgs, chat_id, skip, limit) ==
    LET ms == {m \in msgs : m.chat_id = chat_id}
    IN { SubSeq(OrderByCreatedAt(ms, tb), skip + 1, Min(Cardinality(ms), skip + limit)) :
            tb \in TieBreaks(ms) }

\* ChatService._get_chat_history: the histories the call may return
get_chat_history(msgs, chat_id) ==
    { [i \in 1..Len(rows) |-> [role |-> rows[i].sender_type, content |-> rows[i].content]] :
         rows \in get_by_chat(msgs, chat_id, 0, DefaultLimit) }

\* ChatRepository.get_document_ids: the rows in any order the database yields
RECURSIVE Orderings(_)
Orderings(S) ==
    IF S = {} THEN {<<>>}
    ELSE UNION { { <<x>> \o r : r \in Orderings(S \ {x}) } : x \in S }
get_document_ids(assoc, chat_id) ==
    Orderings({a[2] : a \in {b \in assoc : b[1] = chat_id}})

\* Message(chat_id, content, sender_type): id by uuid4, created_at by utcnow()
Message(t, chat_id, content, sender_type, created_at) ==
    [exists |-> TRUE, id |-> <<t, sender_type>>, chat_id |-> chat_id,
     content |-> content, sender_type |-> sender_type, created_at |-> created_at]

----------------------------------------------------------------------------
(* schemas: the response models of the send-message endpoint *)

\* MessageResponse(id=..., chat_id=..., content=..., sender_type=..., created_at=...)
MessageResponse(m) ==
    IF m.exists
    THEN [id |-> m.id, chat_id |-> m.chat_id, content |-> m.content,
          sender_type |-> m.sender_type, created_at |-> m.created_at]
    ELSE m

\* AIResponse(**kwargs): a pydantic model with the fields message and source_refs
\* (default {}); a keyword that names no field is ignored
AIResponse(kwargs) ==
    [sent |-> TRUE, message |-> kwargs.message,
     source_refs |-> Get(kwargs, "source_refs", EmptyDict)]

\* routes.chats.send_message, lines 284-293: the body built from what the
\* service returned
SendMessageResponse(ai_msg, sources) ==
    AIResponse([message |-> MessageResponse(ai_msg), sources |-> sources])

----------------------------------------------------------------------------
(* routes.chats: create_chat, update_chat, delete_chat, add_documents_to_chat *)

\* Optional[str]: a name given or not
NoName == [given |-> FALSE, name |-> ""]
GivenName(name) == [given |-> TRUE, name |-> name]

\* the names a create_chat request carries ("" and None are both falsy)
ChatNames == {NoName, GivenName(""), GivenName(NewChat), GivenName("Budget questions")}
\* the names an update_chat request carries
UpdateNames == {NoName, GivenName("Renamed")}
\* the document lists an add_documents_to_chat request carries
AddLists == {<<12>>, <<12, 11>>, <<13>>}

\* the chat id is one a create_chat request committed
Created(c) == requests[c].create.pc \in {"row", "done", "failed"}

\* every document of the list is a row of the project
ValidDocuments(ids, project_id) ==
    \A i \in 1..Len(ids) :
        /\ ids[i] \in DOMAIN documents
        /\ documents[ids[i]].exists
        /\ documents[ids[i]].project_id = project_id

\* create_chat up to repositories.py:109, for a request that is not refused
\* (404 when the project is missing, 400 when a listed document is missing or
\* of another project: no write) and whose first commit succeeds:
\* ChatRepository.create commits the chat row, named `name or "New Chat"`, its
\* created_at and updated_at being two readings of the clock
CreateChat(c, project_id, name, document_ids) ==
    /\ requests[c].create.pc = "none"
    /\ project_id \in ProjectIds /\ projects[project_id]
    /\ Truthy(document_ids) => ValidDocuments(document_ids.val, project_id)
    /\ \E later \in 0..1 :
          chats' = [chats EXCEPT ![c] =
                      [exists |-> TRUE, project_id |-> project_id,
                       name |-> IF name.given /\ name.name # "" THEN name.name
                                ELSE NewChat,
                       created_at |-> now + 1,
                       updated_at |-> now + 1 + later]]
    /\ now' = now + 2
    /\ requests' = [requests EXCEPT ![c].create =
                      IF Truthy(document_ids)
                      THEN [pc |-> "row", document_ids |-> document_ids.val]
                      ELSE [pc |-> "done"]]
    /\ UNCHANGED <<documents, index, chat_documents, messages, turns, call,
                   blobs, tasks, uploads, deletes, projects>>

\* repositories.py:112-117: the association rows are committed in a second
\* transaction, which raises when it fails, when the chat or a document is gone
\* or when a row of the same key is there; the chat row stays
CreateChatDocuments(c) ==
    /\ requests[c].create.pc = "row"
    /\ LET rows == {<<c, d>> : d \in Range(requests[c].create.document_ids)}
       IN \E committed \in BOOLEAN :
             IF /\ committed
                /\ chats[c].exists
                /\ \A a \in rows : documents[a[2]].exists
                /\ rows \cap chat_documents = {}
             THEN /\ chat_documents' = chat_documents \cup rows
                  /\ requests' = [requests EXCEPT ![c].create = [pc |-> "done"]]
             ELSE /\ requests' = [requests EXCEPT ![c].create =
                                    [pc |-> "failed", error |-> "CommitError"]]
                  /\ UNCHANGED chat_documents
    /\ UNCHANGED <<documents, index, chats, messages, turns, now, call,
                   blobs, tasks, uploads, deletes, projects>>

\* update_chat up to repositories.py:142, for a request that finds the project
\* and the chat (404 otherwise: no write): the request loads the chat row,
\* assigns the name, when one is given, and a reading of the clock to updated_at
UpdateChat(c, name) ==
    /\ Created(c)
    /\ requests[c].update.pc = "none"
    /\ chats[c].exists /\ projects[chats[c].project_id]
    /\ now' = now + 1
    /\ requests' = [requests EXCEPT ![c].update =
                      [pc |-> "staged", loaded |-> chats[c].name,
                       name |-> IF name.given THEN name.name ELSE chats[c].name,
                       updated_at |-> now + 1]]
    /\ UNCHANGED <<documents, index, chats, chat_documents, messages, turns, call,
                   blobs, tasks, uploads, deletes, projects>>

\* repositories.py:143: the commit of the attributes the request changed
\* (updated_at, and the name when it differs from the name the request loaded),
\* which raises when it fails or when the chat row is gone
CommitUpdate(c) ==
    /\ requests[c].update.pc = "staged"
    /\ \E committed \in BOOLEAN :
          IF committed /\ chats[c].exists
          THEN /\ chats' = [chats EXCEPT
                     ![c].updated_at = requests[c].update.updated_at,
                     ![c].name = IF requests[c].update.name # requests[c].update.loaded
                                 THEN requests[c].update.name
                                 ELSE chats[c].name]
               /\ requests' = [requests EXCEPT ![c].update.pc = "committed"]
          ELSE /\ requests' = [requests EXCEPT ![c].update =
                                 [pc |-> "failed", error |-> "CommitError"]]
               /\ UNCHANGED chats
    /\ UNCHANGED <<documents, index, chat_documents, messages, turns, now, call,
                   blobs, tasks, uploads, deletes, projects>>

\* repositories.py:144: the refresh of the chat, which raises when the statement
\* fails or when the row is gone: the request ends with what it committed
RefreshUpdate(c) ==
    /\ requests[c].update.pc = "committed"
    /\ \E raised \in BOOLEAN :
          requests' = [requests EXCEPT ![c].update =
                         IF ~raised /\ chats[c].exists
                         THEN [pc |-> "done"]
                         ELSE [pc |-> "failed", error |-> "RefreshError"]]
    /\ UNCHANGED <<documents, index, chats, chat_documents, messages, turns, now, call,
                   blobs, tasks, uploads, deletes, projects>>

\* delete_chat and ChatRepository.delete, for a request that finds the chat and
\* whose commit succeeds: the chat row is removed, and its messages and
\* association rows with it
DeleteChat(c) ==
    /\ Created(c)
    /\ requests[c].delete = "none"
    /\ chats[c].exists /\ projects[chats[c].project_id]
    /\ chats' = [chats EXCEPT ![c] = NoRow]
    /\ messages' = {m \in messages : m.chat_id # c}
    /\ chat_documents' = {a \in chat_documents : a[1] # c}
    /\ requests' = [requests EXCEPT ![c].delete = "done"]
    /\ UNCHANGED <<documents, index, turns, now, call,
                   blobs, tasks, uploads, deletes, projects>>

\* add_documents_to_chat and ChatRepository.add_documents, for a request that
\* finds the chat, lists documents of its project (400 otherwise) and whose
\* commit succeeds: the association rows not yet there are committed
AddDocumentsToChat(c, document_ids) ==
    /\ Created(c)
    /\ requests[c].add = "none"
    /\ chats[c].exists /\ projects[chats[c].project_id]
    /\ ValidDocuments(document_ids, chats[c].project_id)
    /\ chat_documents' = chat_documents \cup {<<c, d>> : d \in Range(document_ids)}
    /\ requests' = [requests EXCEPT ![c].add = "done"]
    /\ UNCHANGED <<documents, index, chats, messages, turns, now, call,
                   blobs, tasks, uploads, deletes, projects>>

----------------------------------------------------------------------------
(* ChatService.send_message, step by step.  The session's commits are the  *)
(* only writes of the committed rows; a raised exception ends the request  *)
(* and discards what the session holds uncommitted.                        *)

InProgress(t) == turns[t].pc \notin {"idle", "done", "failed"}

Fail(t, error) == [turns EXCEPT ![t].pc = "failed", ![t].error = error,
                                ![t].pending_ai = NoMsg, ![t].pending_chat = NoPending]

\* an exception raised after the commit of line 130: the request ends, what was
\* committed stays
FailCommitted(t, error) == [turns EXCEPT ![t].pc = "failed", ![t].error = error]

\* routes.chats.send_message finds the project and the chat (404 otherwise);
\* lines 77-82 construct the human message, whose created_at is the clock read
\* `tick` after the last reading, and add it to the session
StartTurnAt(t, c, content, tick) ==
    /\ turns[t].pc = "idle"
    /\ chats[c].exists /\ projects[chats[c].project_id]
    /\ now' = now + tick
    /\ turns' = [turns EXCEPT ![t] =
                    [NoTurn EXCEPT !.pc = "constructed", !.chat_id = c,
                                   !.content = content,
                                   !.chat0 = chats[c], !.chat = chats[c],
                                   !.prior = Cardinality({m \in messages : m.chat_id = c}),
                                   !.human = Message(t, c, content, HUMAN, now + tick)]]
    /\ UNCHANGED <<documents, index, chats, chat_documents, messages, call, jobvars>>

\* requests that do not overlap read the clock at different instants
StartTurn(t, c, content) == StartTurnAt(t, c, content, 1)

\* a turn that begins when every earlier one has ended
BeginTurn(t, c, content) ==
    /\ \A u \in Turns : u < t => turns[u].pc \in {"done", "failed"}
    /\ StartTurn(t, c, content)

\* line 83: the commit of the human message, which raises when it fails or when
\* the chat row it refers to is gone
CommitHuman(t) ==
    /\ turns[t].pc = "constructed"
    /\ \E committed \in BOOLEAN :
          IF committed /\ chats[turns[t].chat_id].exists
          THEN /\ messages' = messages \cup {turns[t].human}
               /\ turns' = [turns EXCEPT ![t].pc = "inserted"]
          ELSE /\ messages' = messages
               /\ turns' = Fail(t, "CommitError")
    /\ UNCHANGED <<documents, index, chats, chat_documents, now, call, jobvars>>

\* line 84: the refresh of the human message, which raises when the statement
\* fails or when the row is gone
RefreshHuman(t) ==
    /\ turns[t].pc = "inserted"
    /\ \E raised \in BOOLEAN :
          turns' = IF ~raised /\ turns[t].human \in messages
                   THEN [turns EXCEPT ![t].pc = "persisted"]
                   ELSE Fail(t, "RefreshError")
    /\ UNCHANGED <<documents, index, chats, chat_documents, messages, now, call, jobvars>>

\* line 87, chat.id: the chat, expired by the commit, is reloaded, which raises
\* when its row is gone
ReloadChat(t) ==
    /\ turns[t].pc = "persisted"
    /\ turns' = IF chats[turns[t].chat_id].exists
                THEN [turns EXCEPT ![t].pc = "reloaded",
                                   ![t].chat = chats[turns[t].chat_id]]
                ELSE Fail(t, "ObjectDeletedError")
    /\ UNCHANGED <<documents, index, chats, chat_documents, messages, now, call, jobvars>>

\* line 87, get_document_ids: the association rows of the chat are read
GetDocumentIds(t) ==
    /\ turns[t].pc = "reloaded"
    /\ \E ids \in get_document_ids(chat_documents, turns[t].chat_id) :
          turns' = [turns EXCEPT ![t].pc = "scoped", ![t].document_ids = ids]
    /\ UNCHANGED <<documents, index, chats, chat_documents, messages, now, call, jobvars>>

SearchScope_project_wide(document_ids) == None

\* the document_ids argument of the search of line 90-95
SearchScope(document_ids) == IF Len(document_ids) > 0 THEN Some(document_ids) ELSE None

\* lines 90-95: the search, which may raise
Search(t) ==
    /\ turns[t].pc = "scoped"
    /\ \/ \E docs \in search(index, turns[t].content, turns[t].chat.project_id,
                             SearchScope(turns[t].document_ids), DefaultK) :
             turns' = [turns EXCEPT ![t].pc = "searched", ![t].docs = docs]
       \/ turns' = Fail(t, "SearchError")
    /\ UNCHANGED <<documents, index, chats, chat_documents, messages, now, call, jobvars>>

\* line 100
GetHistory(t) ==
    /\ turns[t].pc = "searched"
    /\ \E history \in get_chat_history(messages, turns[t].chat_id) :
          turns' = [turns EXCEPT ![t].pc = "history", ![t].history = history]
    /\ UNCHANGED <<documents, index, chats, chat_documents, messages, now, call, jobvars>>

RetrieveAnswer_swallows_error(t) ==
    /\ turns[t].pc = "history"
    /\ \E response \in LLMResponses :
          LET r == retrieve_answer(turns[t].content, turns[t].docs,
                                   Some(turns[t].history), response)
              seen == [turns EXCEPT ![t].llm_calls = r.llm_calls,
                                    ![t].response = IF r.llm_calls > 0 THEN response
                                                    ELSE NoResponse]
          IN IF r.raised
             THEN turns' = [seen EXCEPT ![t].pc = "answered", ![t].answer = INSUFFICIENT,
                                        ![t].sources = EmptyDict]
             ELSE turns' = [seen EXCEPT ![t].pc = "answered", ![t].answer = r.answer,
                                        ![t].sources = r.source_refs]
    /\ UNCHANGED <<documents, index, chats, chat_documents, messages, now, call, jobvars>>

\* lines 103-107: answer synthesis; an exception of the model call propagates
RetrieveAnswer(t) ==
    /\ turns[t].pc = "history"
    /\ \E response \in LLMResponses :
          LET r == retrieve_answer(turns[t].content, turns[t].docs,
                                   Some(turns[t].history), response)
              seen == [turns EXCEPT ![t].llm_calls = r.llm_calls,
                                    ![t].response = IF r.llm_calls > 0 THEN response
                                                    ELSE NoResponse]
          IN IF r.raised
             THEN turns' = [seen EXCEPT ![t].pc = "failed",
                                        ![t].error = "LanguageModelError"]
             ELSE turns' = [seen EXCEPT ![t].pc = "answered", ![t].answer = r.answer,
                                        ![t].sources = r.source_refs]
    /\ UNCHANGED <<documents, index, chats, chat_documents, messages, now, call, jobvars>>

StageAI_without_add(t) ==
    /\ turns[t].pc = "answered"
    /\ now' = now + 2
    /\ turns' = [turns EXCEPT
          ![t].pc = "staged",
          ![t].pending_chat = [dirty |-> TRUE, updated_at |-> now + 2,
                               name |-> turns[t].chat.name]]
    /\ UNCHANGED <<documents, index, chats, chat_documents, messages, call, jobvars>>

StageAI_commits_message(t) ==
    /\ turns[t].pc = "answered"
    /\ now' = now + 2
    /\ messages' = messages \cup
          {Message(t, turns[t].chat_id, turns[t].answer, AI, now + 1)}
    /\ turns' = [turns EXCEPT
          ![t].pc = "staged",
          ![t].pending_ai = Message(t, turns[t].chat_id, turns[t].answer, AI, now + 1),
          ![t].pending_chat = [dirty |-> TRUE, updated_at |-> now + 2,
                               name |-> turns[t].chat.name]]
    /\ UNCHANGED <<documents, index, chats, chat_documents, call, jobvars>>

\* lines 110-119: the AI message and the chat's new updated_at are added to the
\* session, uncommitted
StageAI(t) ==
    /\ turns[t].pc = "answered"
    /\ now' = now + 2
    /\ turns' = [turns EXCEPT
          ![t].pc = "staged",
          ![t].pending_ai = Message(t, turns[t].chat_id, turns[t].answer, AI, now + 1),
          ![t].pending_chat = [dirty |-> TRUE, updated_at |-> now + 2,
                               name |-> turns[t].chat.name]]
    /\ UNCHANGED <<documents, index, chats, chat_documents, messages, call, jobvars>>

TitleGuard_name_only(t) ==
    turns[t].auto_title /\ turns[t].chat.name = NewChat

\* line 122: the guard of the auto-title
TitleGuard(t) ==
    turns[t].auto_title /\ Len(turns[t].history) = 0 /\ turns[t].chat.name = NewChat

\* lines 121-128: the auto-title; an exception of the title call is swallowed
AutoTitle(t) ==
    /\ turns[t].pc = "staged"
    /\ IF TitleGuard(t)
       THEN \E response \in TitleResponses :
               LET r == generate_chat_title(turns[t].content, response)
                   called == [turns EXCEPT ![t].pc = "titled", ![t].title_calls = 1,
                                           ![t].title_response = response]
               IN IF r.raised THEN turns' = called
                  ELSE turns' = [called EXCEPT ![t].pending_chat.name = r.title]
       ELSE turns' = [turns EXCEPT ![t].pc = "titled"]
    /\ UNCHANGED <<documents, index, chats, chat_documents, messages, now, call, jobvars>>

\* line 130: the commit of the AI message and of the attributes of the chat the
\* turn changed (updated_at, and the name when the title differs from the name
\* the turn loaded), which raises when it fails or when the chat row is gone
Commit(t) ==
    /\ turns[t].pc = "titled"
    /\ \E committed \in BOOLEAN :
          IF committed /\ chats[turns[t].chat_id].exists
          THEN /\ messages' = messages \cup
                                 (IF turns[t].pending_ai.exists THEN {turns[t].pending_ai}
                                  ELSE {})
               /\ chats' = [chats EXCEPT
                     ![turns[t].chat_id].updated_at = turns[t].pending_chat.updated_at,
                     ![turns[t].chat_id].name =
                         IF turns[t].pending_chat.name # turns[t].chat.name
                         THEN turns[t].pending_chat.name
                         ELSE chats[turns[t].chat_id].name]
               /\ turns' = [turns EXCEPT ![t].pc = "committed"]
          ELSE /\ turns' = Fail(t, "CommitError")
               /\ UNCHANGED <<messages, chats>>
    /\ UNCHANGED <<documents, index, chat_documents, now, call, jobvars>>

\* line 131: the refresh of the AI message, which raises when the statement
\* fails or when the row is gone: the request ends with what it committed
RefreshAI(t) ==
    /\ turns[t].pc = "committed"
    /\ \E raised \in BOOLEAN :
          turns' = IF ~raised /\ (turns[t].pending_ai.exists =>
                                     turns[t].pending_ai \in messages)
                   THEN [turns EXCEPT ![t].pc = "refreshed"]
                   ELSE FailCommitted(t, "RefreshError")
    /\ UNCHANGED <<documents, index, chats, chat_documents, messages, now, call, jobvars>>

\* lines 132-134: the refresh of the chat, which raises when the statement fails
\* or when the row is gone; then the return to the route, which builds the
\* response body from the refreshed AI message
RefreshChat(t) ==
    /\ turns[t].pc = "refreshed"
    /\ \E raised \in BOOLEAN :
          turns' = IF ~raised /\ chats[turns[t].chat_id].exists
                   THEN [turns EXCEPT
                           ![t].pc = "done", ![t].returned = TRUE,
                           ![t].chat = chats[turns[t].chat_id],
                           ![t].body = SendMessageResponse(turns[t].pending_ai,
                                                           turns[t].sources)]
                   ELSE FailCommitted(t, "RefreshError")
    /\ UNCHANGED <<documents, index, chats, chat_documents, messages, now, call, jobvars>>

\* the corpora the turns run on: nothing ingested, or all of it
Corpora == {{}, DocIds}

Init == (\E D \in Corpora : StoreAfter(D)) /\ InitRest

\* every document of the corpus is ingested and no chat exists
InitChats == StoreAfter(DocIds) /\ InitRest

\* the document scopes of the chats created while other requests run
ScopeArgs == {None, Some(<<11>>)}

\* the turns that run while other requests are made on their chat
RacedTurns == {1}

\* the requests of routes.chats that write: a chat is created, renamed, given
\* documents and deleted while a turn of it runs
Next ==
    \/ \E c \in ChatIds, project_id \in ProjectIds, name \in ChatNames,
          document_ids \in ScopeArgs : CreateChat(c, project_id, name, document_ids)
    \/ \E c \in ChatIds : CreateChatDocuments(c)
    \/ \E c \in ChatIds, name \in UpdateNames : UpdateChat(c, name)
    \/ \E c \in ChatIds : CommitUpdate(c)
    \/ \E c \in ChatIds : RefreshUpdate(c)
    \/ \E c \in ChatIds : DeleteChat(c)
    \/ \E c \in ChatIds, document_ids \in AddLists : AddDocumentsToChat(c, document_ids)
    \/ \E t \in RacedTurns, c \in ChatIds, content \in Texts : BeginTurn(t, c, content)
    \/ \E t \in RacedTurns : CommitHuman(t)
    \/ \E t \in RacedTurns : RefreshHuman(t)
    \/ \E t \in RacedTurns : ReloadChat(t)
    \/ \E t \in RacedTurns : GetDocumentIds(t)
    \/ \E t \in RacedTurns : Search(t)
    \/ \E t \in RacedTurns : GetHistory(t)
    \/ \E t \in RacedTurns : RetrieveAnswer(t)
    \/ \E t \in RacedTurns : StageAI(t)
    \/ \E t \in RacedTurns : AutoTitle(t)
    \/ \E t \in RacedTurns : Commit(t)
    \/ \E t \in RacedTurns : RefreshAI(t)
    \/ \E t \in RacedTurns : RefreshChat(t)

Spec == InitChats /\ [][Next]_vars

\* the document scopes of the chats that take turns: none, an empty list, one
\* of the two documents of the project
TurnScopes == {None, Some(<<>>), Some(<<11>>)}

\* a chat is created and takes its turns one after the other, no other request
\* being made on it
NextTurns ==
    \/ \E c \in ChatIds, project_id \in ProjectIds, name \in ChatNames,
          document_ids \in TurnScopes : CreateChat(c, project_id, name, document_ids)
    \/ \E c \in ChatIds : CreateChatDocuments(c)
    \/ \E t \in Turns, c \in ChatIds, content \in Texts : BeginTurn(t, c, content)
    \/ \E t \in Turns : CommitHuman(t)
    \/ \E t \in Turns : RefreshHuman(t)
    \/ \E t \in Turns : ReloadChat(t)
    \/ \E t \in Turns : GetDocumentIds(t)
    \/ \E t \in Turns : Search(t)
    \/ \E t \in Turns : GetHistory(t)
    \/ \E t \in Turns : RetrieveAnswer(t)
    \/ \E t \in Turns : StageAI(t)
    \/ \E t \in Turns : AutoTitle(t)
    \/ \E t \in Turns : Commit(t)
    \/ \E t \in Turns : RefreshAI(t)
    \/ \E t \in Turns : RefreshChat(t)

SpecTurns == Init /\ [][NextTurns]_vars

----------------------------------------------------------------------------
(* Properties of the turn *)

Quiescent == \A t \in Turns : ~InProgress(t)
Latest(t) == \A u \in Turns : u > t => turns[u].pc = "idle"
Association(c) == {a[2] : a \in {b \in chat_documents : b[1] = c}}
HasMessage(ms, t, sender) == \E m \in ms : m.id = <<t, sender>>
Searched(t) ==
    turns[t].pc \in {"searched", "history", "answered", "staged", "titled",
                     "committed", "refreshed", "done"}
Answered(t) == turns[t].pc \in {"answered", "staged", "titled", "committed", "refreshed", "done"}
\* the turn ended after the commit of line 130 went through: it returned, or a
\* refresh of lines 131-132 raised
FinalCommitted(t) ==
    \/ turns[t].pc = "done"
    \/ turns[t].pc = "failed" /\ turns[t].pending_chat.dirty

\* C2: the document ids a turn reads are exactly the association set of its chat
\* at that step, and when that set is not empty the search is issued with it, so
\* every retrieved chunk and every entry of the citation map names a document of
\* the set.
C2_ChatScopedCitations ==
    /\ [](\A t \in Turns :
            LET ids == {str(d) : d \in Range(turns[t].document_ids)}
            IN (Searched(t) /\ ids # {}) =>
                  /\ \A i \in 1..Len(turns[t].docs) :
                        turns[t].docs[i].metadata.document_id \in ids
                  /\ Answered(t) =>
                        \A n \in DOMAIN turns[t].sources :
                            turns[t].sources[n].document_id \in ids)
    /\ [][\A t \in Turns :
            (turns[t].pc = "reloaded" /\ turns'[t].pc = "scoped") =>
                Range(turns'[t].document_ids) = Association(turns[t].chat_id)]_vars

\* a turn of a chat scoped to one document returned a citation while another
\* document of the same project holds an indexed chunk nearer to the question
\* than every chunk retrieved
C2_Witness ==
    \E t \in Turns :
        /\ turns[t].pc = "done" /\ turns[t].returned
        /\ Cardinality(Association(turns[t].chat_id)) = 1
        /\ DOMAIN turns[t].sources # {}
        /\ \E c \in index :
              /\ c.metadata.project_id = str(turns[t].chat.project_id)
              /\ c.metadata.document_id \notin
                    {str(d) : d \in Association(turns[t].chat_id)}
              /\ \A i \in 1..Len(turns[t].docs) :
                    Similarity(turns[t].content, c) >
                        Similarity(turns[t].content, turns[t].docs[i])

\* C5: when the model call of answer synthesis raises, the call ends with that
\* error and returns nothing, the human message of the turn is committed, no AI
\* message of the turn is, and the committed chat row is the one the turn found.
C5_SynthesisErrorPropagates ==
    \A t \in Turns :
        turns[t].response.kind = "raise" =>
            /\ turns[t].pc = "failed"
            /\ turns[t].error = "LanguageModelError"
            /\ ~turns[t].returned
            /\ turns[t].human \in messages
            /\ ~HasMessage(messages, t, AI)
            /\ Latest(t) => chats[turns[t].chat_id] = turns[t].chat0

\* the model call of a turn raised over a non-empty retrieval
C5_Witness ==
    \E t \in Turns :
        /\ turns[t].response.kind = "raise"
        /\ turns[t].llm_calls = 1
        /\ Len(turns[t].docs) > 0
        /\ turns[t].pc = "failed"
        /\ turns[t].human \in messages

\* the message that follows m in the creation order of its chat, if any
Following(m) ==
    LET later == {o \in messages : /\ o.chat_id = m.chat_id /\ o # m
                                   /\ o.created_at >= m.created_at}
    IN IF later = {} THEN NoMsg
       ELSE CHOOSE o \in later : \A p \in later : o.created_at <= p.created_at

FollowedByOwnAnswer(m) ==
    /\ Following(m).exists
    /\ Following(m).id = <<m.id[1], AI>>
    /\ Cardinality({a \in messages : a.sender_type = AI /\ a.id[1] = m.id[1]}) = 1

\* C6 as claimed: between turns, every committed human message is immediately
\* followed by exactly one AI message of its own turn (a failed turn having left
\* no message of its own).
C6_EveryHumanAnswered ==
    Quiescent =>
        \A m \in messages : m.sender_type = HUMAN => FollowedByOwnAnswer(m)

\* between turns: the human message of a turn whose final commit went through is
\* immediately followed by exactly one AI message of that turn; the human message
\* of a turn that failed between its two commits is committed with no AI message
\* of the turn
C6_Pairing ==
    Quiescent =>
        /\ \A m \in messages :
              m.sender_type = HUMAN =>
                 IF FinalCommitted(m.id[1]) THEN FollowedByOwnAnswer(m)
                 ELSE /\ turns[m.id[1]].pc = "failed"
                      /\ ~HasMessage(messages, m.id[1], AI)
        /\ \A m \in messages : m.sender_type = AI => HasMessage(messages, m.id[1], HUMAN)
        /\ \A t \in Turns :
              /\ turns[t].pc = "done" => HasMessage(messages, t, HUMAN)
              /\ (turns[t].pc = "failed" /\ turns[t].error # "CommitError") =>
                    HasMessage(messages, t, HUMAN)

\* C6, amended: messages are only ever added; between turns, the human message of
\* a turn whose final commit went through (the turn returned, or a refresh after
\* the commit raised) is immediately followed by exactly one AI message of that
\* turn, and the human message of a turn that failed at retrieval, synthesis or
\* the final commit stays committed with no AI message of that turn.
C6_HumanAnsweredOrOrphaned ==
    /\ []C6_Pairing
    /\ [][messages \subseteq messages']_vars

\* two turns ran: the first failed after its human message was committed, the
\* second returned
C6_Witness ==
    /\ Quiescent
    /\ \E t, u \in Turns :
          /\ t < u
          /\ turns[t].pc = "failed" /\ HasMessage(messages, t, HUMAN)
          /\ turns[u].pc = "done" /\ HasMessage(messages, u, AI)
          /\ turns[t].chat_id = turns[u].chat_id

\* C7: every step that commits the AI message of a turn commits the chat's new
\* updated_at and name in the same step, and no other step changes a committed
\* chat row.
C7_SingleCommit ==
    [][ \A c \in ChatIds :
          (chats[c].exists /\ chats'[c].exists) =>
             LET committing == {t \in Turns : /\ turns[t].chat_id = c
                                              /\ ~HasMessage(messages, t, AI)
                                              /\ HasMessage(messages', t, AI)}
             IN /\ (chats'[c] # chats[c]) <=> (committing # {})
                /\ \A t \in committing :
                      /\ chats'[c].updated_at = turns[t].pending_chat.updated_at
                      /\ chats'[c].updated_at # chats[c].updated_at
                      /\ chats'[c].name = turns[t].pending_chat.name ]_vars

\* a turn failed at its final commit and left the chat row as it was, and a later
\* turn committed its AI message together with the chat's updated_at
C7_Witness ==
    \E t, u \in Turns :
        /\ t < u
        /\ turns[t].pc = "failed" /\ turns[t].error = "CommitError"
        /\ HasMessage(messages, t, HUMAN) /\ ~HasMessage(messages, t, AI)
        /\ turns[u].pc = "done" /\ HasMessage(messages, u, AI)
        /\ turns[u].chat_id = turns[t].chat_id
        /\ chats[turns[u].chat_id].updated_at = turns[u].pending_chat.updated_at

\* C8 as claimed: a turn that returned, begun in a chat named "New Chat" holding
\* no message, invoked title generation, and the committed name is the title
\* generated when one was.
C8_FirstTurnTitles ==
    \A t \in Turns :
        (turns[t].pc = "done" /\ turns[t].auto_title /\ turns[t].prior = 0
            /\ turns[t].chat0.name = NewChat) =>
            /\ turns[t].title_calls = 1
            /\ turns[t].title_response.kind = "ok" =>
                  turns[t].pending_chat.name =
                     generate_chat_title(turns[t].content, turns[t].title_response).title

TitleCalls == {t \in Turns : turns[t].title_calls > 0}

\* C9: title generation is invoked in at most one turn, and in no turn begun in a
\* chat that held a message or was not named "New Chat".
C9_TitleAtMostOnce ==
    /\ Cardinality(TitleCalls) <= 1
    /\ \A t \in Turns : turns[t].title_calls <= 1
    /\ \A t \in TitleCalls :
          turns[t].prior = 0 /\ turns[t].chat0.name = NewChat

\* a second turn of a chat still named "New Chat" returned, after a first turn
\* that had left its human message, without a title call
C9_Witness ==
    \E t, u \in Turns :
        /\ t < u
        /\ turns[t].chat_id = turns[u].chat_id
        /\ HasMessage(messages, t, HUMAN)
        /\ turns[u].pc = "done" /\ turns[u].prior > 0
        /\ turns[u].chat0.name = NewChat
        /\ turns[u].title_calls = 0


\* C10: a turn whose title call raised still commits its AI message and the
\* chat's updated_at, returns, and leaves the chat named "New Chat".
C10_TitleErrorSwallowed ==
    \A t \in Turns :
        (turns[t].title_response.kind = "raise" /\ Quiescent) =>
            /\ turns[t].pc = "done" => /\ turns[t].returned
                                        /\ HasMessage(messages, t, AI)
                                        /\ Latest(t) => chats[turns[t].chat_id].name = NewChat
            /\ turns[t].pc = "failed" => turns[t].error = "CommitError"

\* the case of C10: the title call of some turn raised.  No state of the turns of
\* a chat that stays satisfies it, because no such turn invokes title generation
\* (C8); the turn of a chat deleted before the history is read invokes it and
\* fails at its commit.
C10_TitleRaised ==
    \E t \in Turns : turns[t].title_calls = 1 /\ turns[t].title_response.kind = "raise"

\* C11 as claimed: the body of the response to a turn whose retrieval returned
\* at least one chunk carries the citation map that answer synthesis returned
\* for the turn, which is not empty.
C11_ResponseCarriesCitations ==
    \A t \in Turns :
        (turns[t].pc = "done" /\ turns[t].body.sent /\ Len(turns[t].docs) > 0) =>
            /\ turns[t].body.source_refs = turns[t].sources
            /\ turns[t].body.source_refs # EmptyDict

\* the message list the turn handed to the language model
LLMInput(t) ==
    retrieve_answer(turns[t].content, turns[t].docs, Some(turns[t].history),
                    turns[t].response).llm_input

\* C19 as claimed: the history handed to answer synthesis holds the messages the
\* chat held before the turn's human message and no more, so a first turn hands
\* the model the two-slot list and every list ends with the question, the entry
\* before it being no message of this turn.
C19_HistoryExcludesQuestion ==
    \A t \in Turns :
        turns[t].llm_calls = 1 =>
            /\ Len(turns[t].history) = turns[t].prior
            /\ Len(LLMInput(t)) = 2 + Min(HistoryWindow, turns[t].prior)
            /\ turns[t].prior = 0 =>
                  LLMInput(t) = <<LLMInput(t)[1], HumanMessage(turns[t].content)>>

----------------------------------------------------------------------------
(* SpecIngest: routes.documents.upload_document, the background task        *)
(* DocumentService.save_document_vectors and routes.documents.delete_document *)

FAILED == "Failed"
Terminal == {SUCCESSFUL, FAILED}

\* the chunks of the index that carry the id of document d
ChunksOf(store, d) == {c \in store : c.metadata.document_id = str(d)}

\* vector_store.adelete(filter={"document_id": str(document_id)})
adelete(store, d) ==
    {c \in store :
        ~FilterMatches([op |-> "$eq", field |-> "document_id", value |-> str(d)],
                       c.metadata)}

\* the outcomes of upload_document before the blob is sent: a 400 of lines 70-94
\* (no filename, extension not allowed, file too large), a failed commit of the
\* row, the row created
UploadOutcomes == {"created", "BadRequest", "CommitError"}

\* the documents uploaded in a behaviour of SpecIngest: two of one project
IngestDocs == {11, 12}

\* upload_document up to line 104: 404 when the project is missing, 400 for a file
\* that is refused, otherwise DocumentRepository.create commits the row
Upload(d) ==
    /\ uploads[d].status = "none"
    /\ \E outcome \in UploadOutcomes :
          CASE ~projects[ProjectOf(d)] ->
                  /\ uploads' = [uploads EXCEPT ![d] =
                                   [status |-> "error", error |-> "NotFound"]]
                  /\ UNCHANGED documents
            [] outcome \in {"BadRequest", "CommitError"} ->
                  /\ uploads' = [uploads EXCEPT ![d] =
                                   [status |-> "error", error |-> outcome]]
                  /\ UNCHANGED documents
            [] OTHER ->
                  /\ documents' = [documents EXCEPT ![d] = DocumentRow(d, FALSE)]
                  /\ uploads' = [uploads EXCEPT ![d] =
                                   [status |-> "row", document |-> DocumentRow(d, FALSE)]]
    /\ UNCHANGED <<index, chats, chat_documents, messages, turns, now, call,
                   blobs, tasks, deletes, projects, requests>>

UploadBlob_ingests_inline(d) ==
    /\ uploads[d].status = "row"
    /\ documents' = [documents EXCEPT ![d] = DocumentRow(d, TRUE)]
    /\ index' = index \cup IngestedChunks(d)
    /\ blobs' = blobs \cup {BlobName(d, DocumentRow(d, TRUE))}
    /\ tasks' = [tasks EXCEPT ![d] = FinishedTask(d)]
    /\ uploads' = [uploads EXCEPT ![d] =
                     [status |-> "ok", response |-> to_response(d, DocumentRow(d, TRUE))]]
    /\ UNCHANGED <<chats, chat_documents, messages, turns, now, call, deletes, projects, requests>>

\* upload_document, lines 106-110: the blob is stored, the task is scheduled and
\* the row the request holds is returned; the row stays when the blob upload
\* raises
UploadBlob(d) ==
    /\ uploads[d].status = "row"
    /\ \E raised \in BOOLEAN :
          LET document == uploads[d].document
          IN IF raised
             THEN /\ uploads' = [uploads EXCEPT ![d] =
                                   [status |-> "error", error |-> "BlobError"]]
                  /\ UNCHANGED <<blobs, tasks>>
             ELSE /\ blobs' = blobs \cup {BlobName(d, document)}
                  /\ tasks' = [tasks EXCEPT ![d] = ScheduledTask]
                  /\ uploads' = [uploads EXCEPT ![d] =
                                   [status |-> "ok",
                                    response |-> to_response(d, document)]]
    /\ UNCHANGED <<documents, index, chats, chat_documents, messages, turns, now, call,
                   deletes, projects, requests>>

\* an exception leaves save_document_vectors: the session is closed, nothing of
\* it is committed, the task ends
TaskRaise(d, error) == [tasks EXCEPT ![d].pc = "raised", ![d].error = error]

\* save_document_vectors, lines 33-37: the row is loaded; the task returns when
\* there is none
TaskLoad(d) ==
    /\ tasks[d].pc = "scheduled"
    /\ tasks' = IF documents[d].exists
                THEN [tasks EXCEPT ![d].pc = "loaded", ![d].document = documents[d]]
                ELSE [tasks EXCEPT ![d].pc = "returned"]
    /\ UNCHANGED <<documents, index, chats, chat_documents, messages, turns, now, call,
                   blobs, uploads, deletes, projects, requests>>

\* lines 39-40: extraction and chunking, either of which may raise
TaskSplit(d) ==
    /\ tasks[d].pc = "loaded"
    /\ \/ tasks' = [tasks EXCEPT ![d].pc = "split", ![d].splits = SplitsOf(d)]
       \/ tasks' = TaskRaise(d, "ExtractionFailed")
    /\ UNCHANGED <<documents, index, chats, chat_documents, messages, turns, now, call,
                   blobs, uploads, deletes, projects, requests>>

TaskAddDocuments_counts_first(d) ==
    /\ tasks[d].pc = "split"
    /\ documents' = IF documents[d].exists
                    THEN [documents EXCEPT ![d].chunk_count = Len(tasks[d].splits)]
                    ELSE documents
    /\ \/ /\ index' = index \cup add_metadata(tasks[d].splits, d, tasks[d].document,
                                               tasks[d].document.project_id)
          /\ tasks' = [tasks EXCEPT ![d].pc = "indexed"]
       \/ /\ tasks' = TaskRaise(d, "IndexWriteError")
          /\ UNCHANGED index
    /\ UNCHANGED <<chats, chat_documents, messages, turns, now, call,
                   blobs, uploads, deletes, projects, requests>>

\* lines 42-44: the chunks are tagged and written to the index (embedding and
\* write may raise, writing nothing)
TaskAddDocuments(d) ==
    /\ tasks[d].pc = "split"
    /\ \/ /\ index' = index \cup add_metadata(tasks[d].splits, d, tasks[d].document,
                                               tasks[d].document.project_id)
          /\ tasks' = [tasks EXCEPT ![d].pc = "indexed"]
       \/ /\ tasks' = TaskRaise(d, "IndexWriteError")
          /\ UNCHANGED index
    /\ UNCHANGED <<documents, chats, chat_documents, messages, turns, now, call,
                   blobs, uploads, deletes, projects, requests>>

\* DocumentRepository.finish_embedding, lines 95-98: chunk_count and status are
\* set and committed; the commit raises when it fails or when the row is gone
TaskFinish(d) ==
    /\ tasks[d].pc = "indexed"
    /\ \E committed \in BOOLEAN :
          IF committed /\ documents[d].exists
          THEN /\ documents' = [documents EXCEPT ![d] =
                                  [tasks[d].document EXCEPT
                                      !.chunk_count = Len(tasks[d].splits),
                                      !.status = SUCCESSFUL]]
               /\ tasks' = [tasks EXCEPT ![d].pc = "committed",
                                         ![d].document = documents'[d]]
          ELSE /\ tasks' = TaskRaise(d, "CommitError")
               /\ UNCHANGED documents
    /\ UNCHANGED <<index, chats, chat_documents, messages, turns, now, call,
                   blobs, uploads, deletes, projects, requests>>

\* DocumentRepository.finish_embedding, line 99: the refresh of the row, which
\* raises when the statement fails or when the row is gone; the task then ends
\* with the exception and what it committed stays
TaskRefresh(d) ==
    /\ tasks[d].pc = "committed"
    /\ \E raised \in BOOLEAN :
          tasks' = IF ~raised /\ documents[d].exists
                   THEN [tasks EXCEPT ![d].pc = "finished", ![d].document = documents[d]]
                   ELSE TaskRaise(d, "RefreshError")
    /\ UNCHANGED <<documents, index, chats, chat_documents, messages, turns, now, call,
                   blobs, uploads, deletes, projects, requests>>

\* delete_document, lines 183-196: 404 unless the project exists and the document
\* is a row of it
DeleteBegin(d) ==
    /\ deletes[d].pc = "none"
    /\ uploads[d].status # "none"
    /\ deletes' = IF projects[ProjectOf(d)] /\ documents[d].exists
                  THEN [deletes EXCEPT ![d] =
                          [pc |-> "found", vectors_raised |-> FALSE, error |-> "",
                           document |-> documents[d],
                           before |-> [chunks |-> ChunksOf(index, d),
                                       blob |-> BlobName(d, documents[d]) \in blobs,
                                       task_pc |-> tasks[d].pc]]]
                  ELSE [deletes EXCEPT ![d].pc = "error", ![d].error = "NotFound"]
    /\ UNCHANGED <<documents, index, chats, chat_documents, messages, turns, now, call,
                   blobs, tasks, uploads, projects, requests>>

delete_document_vectors_raises(store, d, raised) ==
    IF raised THEN [raised |-> TRUE, store |-> store]
    ELSE [raised |-> FALSE, store |-> adelete(store, d)]

\* DocumentService.delete_document_vectors with the outcome of the store's
\* delete: an exception of the store is caught and dropped
delete_document_vectors(store, d, raised) ==
    IF raised THEN [raised |-> FALSE, store |-> store]
    ELSE [raised |-> FALSE, store |-> adelete(store, d)]

\* line 199
DeleteVectors(d) ==
    /\ deletes[d].pc = "found"
    /\ \E raised \in BOOLEAN :
          LET r == delete_document_vectors(index, d, raised)
          IN IF r.raised
             THEN /\ deletes' = [deletes EXCEPT ![d].pc = "error",
                                                ![d].error = "VectorDeleteError",
                                                ![d].vectors_raised = raised]
                  /\ UNCHANGED index
             ELSE /\ index' = r.store
                  /\ deletes' = [deletes EXCEPT ![d].pc = "vectors",
                                                ![d].vectors_raised = raised]
    /\ UNCHANGED <<documents, chats, chat_documents, messages, turns, now, call,
                   blobs, tasks, uploads, projects, requests>>

\* lines 201-203: the blob is deleted; a missing blob raises FileNotFoundError
DeleteBlob(d) ==
    /\ deletes[d].pc = "vectors"
    /\ LET blob_name == BlobName(d, deletes[d].document)
       IN \E raised \in BOOLEAN :
             IF blob_name \in blobs /\ ~raised
             THEN /\ blobs' = blobs \ {blob_name}
                  /\ deletes' = [deletes EXCEPT ![d].pc = "blob"]
             ELSE /\ deletes' = [deletes EXCEPT
                                    ![d].pc = "error",
                                    ![d].error = IF blob_name \in blobs THEN "BlobError"
                                                 ELSE "FileNotFoundError"]
                  /\ UNCHANGED blobs
    /\ UNCHANGED <<documents, index, chats, chat_documents, messages, turns, now, call,
                   tasks, uploads, projects, requests>>

\* lines 205-208: DocumentRepository.delete commits the removal of the row (its
\* association rows go with it) and the request returns 204
DeleteRow(d) ==
    /\ deletes[d].pc = "blob"
    /\ \E committed \in BOOLEAN :
          IF committed
          THEN /\ documents' = [documents EXCEPT ![d] = NoRow]
               /\ chat_documents' = {a \in chat_documents : a[2] # d}
               /\ deletes' = [deletes EXCEPT ![d].pc = "done"]
          ELSE /\ deletes' = [deletes EXCEPT ![d].pc = "error", ![d].error = "CommitError"]
               /\ UNCHANGED <<documents, chat_documents>>
    /\ UNCHANGED <<index, chats, messages, turns, now, call, blobs, tasks, uploads, projects, requests>>

\* no document has been uploaded to the projects of P, the projects there are
InitIngestIn(P) ==
    /\ documents = [d \in DocIds |-> NoRow]
    /\ index = {}
    /\ blobs = {}
    /\ tasks = [d \in DocIds |-> NoTask]
    /\ uploads = [d \in DocIds |-> NoUpload]
    /\ deletes = [d \in DocIds |-> NoDelete]
    /\ projects = [p \in P |-> TRUE]
    /\ InitRest

InitIngest == InitIngestIn(ProjectIds)

NextIngest ==
    \/ \E d \in IngestDocs : Upload(d)
    \/ \E d \in IngestDocs : UploadBlob(d)
    \/ \E d \in IngestDocs : TaskLoad(d)
    \/ \E d \in IngestDocs : TaskSplit(d)
    \/ \E d \in IngestDocs : TaskAddDocuments(d)
    \/ \E d \in IngestDocs : TaskFinish(d)
    \/ \E d \in IngestDocs : TaskRefresh(d)
    \/ \E d \in IngestDocs : DeleteBegin(d)
    \/ \E d \in IngestDocs : DeleteVectors(d)
    \/ \E d \in IngestDocs : DeleteBlob(d)
    \/ \E d \in IngestDocs : DeleteRow(d)

SpecIngest == InitIngest /\ [][NextIngest]_vars

\* the background tasks are run once scheduled: each step of a task that can be
\* taken eventually is
FairIngest ==
    \A d \in IngestDocs :
        /\ WF_vars(TaskLoad(d))
        /\ WF_vars(TaskSplit(d))
        /\ WF_vars(TaskAddDocuments(d))
        /\ WF_vars(TaskFinish(d))
        /\ WF_vars(TaskRefresh(d))

SpecIngestFair == InitIngest /\ [][NextIngest]_vars /\ FairIngest

(* Properties of upload, ingestion and deletion *)

DeleteEnded(d) == deletes[d].pc \in {"done", "error"}
HadChunks(d) == deletes[d].pc \notin {"none", "error"} /\ deletes[d].before.chunks # {}

\* C12 as claimed: once delete_document has returned 204 for a document that had
\* indexed chunks, the index holds no chunk with its id: no search of its project
\* returns one and the store filtered by its id is empty.
C12_DeletedDocumentUnsearchable ==
    \A d \in IngestDocs :
        (deletes[d].pc = "done" /\ HadChunks(d)) =>
            /\ \A query \in Texts, k \in KArgs :
                  \A r \in search(index, query, ProjectOf(d), None, k) :
                      \A i \in 1..Len(r) : r[i].metadata.document_id # str(d)
            /\ ChunksOf(index, d) = {}

\* C13 as claimed: a delete_document call that removed exactly one of the row and
\* the indexed chunks of a document, leaving the other, ended with an error.
C13_PartialDeleteSurfaced ==
    \A d \in IngestDocs :
        (DeleteEnded(d) /\ deletes[d].error # "NotFound" /\ deletes[d].before.chunks # {}) =>
            LET row_removed == ~documents[d].exists
                vectors_removed == ChunksOf(index, d) = {}
            IN (row_removed # vectors_removed) => deletes[d].pc = "error"

\* C14: when the store's delete raised, delete_document_vectors returned normally
\* and left the index as it was; delete_document goes on to the blob, ends only
\* with an error of a later step, and when it returns 204 the blob and the row are
\* removed.
C14_VectorDeleteErrorSwallowed ==
    \A d \in IngestDocs :
        deletes[d].vectors_raised =>
            /\ deletes[d].pc \in {"vectors", "blob", "done", "error"}
            /\ deletes[d].error \in {"", "BlobError", "FileNotFoundError", "CommitError"}
            /\ deletes[d].pc = "vectors" => ENABLED DeleteBlob(d)
            /\ deletes[d].pc = "blob" => ENABLED DeleteRow(d)
            /\ deletes[d].pc = "done" =>
                  /\ ~documents[d].exists
                  /\ BlobName(d, deletes[d].document) \notin blobs

\* the store's delete raised for a document with indexed chunks and the request
\* returned 204: row and blob are gone, the chunks are not
C14_Witness ==
    \E d \in IngestDocs :
        /\ deletes[d].vectors_raised
        /\ deletes[d].pc = "done"
        /\ ~documents[d].exists
        /\ BlobName(d, deletes[d].document) \notin blobs
        /\ ChunksOf(index, d) # {}
        /\ ChunksOf(index, d) = deletes[d].before.chunks

\* the chunks the task of d hands to the index
Written(d) ==
    add_metadata(tasks[d].splits, d, tasks[d].document, tasks[d].document.project_id)

\* the task of d raised in finish_embedding after its commit went through
RaisedAfterCommit(d) == tasks[d].pc = "raised" /\ tasks[d].error = "RefreshError"

\* the row of a document has chunk_count 0 and status "In progress" until its
\* task has written the index, and a row with status Successful carries the
\* number of chunks its task wrote, which are the chunks of it in the index
C15_Counted ==
    \A d \in IngestDocs :
        documents[d].exists =>
            /\ tasks[d].pc \notin {"indexed", "committed", "finished", "raised"} =>
                  documents[d].chunk_count = 0 /\ documents[d].status = IN_PROGRESS
            /\ tasks[d].pc = "indexed" =>
                  documents[d].chunk_count = 0 /\ documents[d].status # SUCCESSFUL
            /\ documents[d].status = SUCCESSFUL =>
                  /\ tasks[d].pc \in {"committed", "finished"} \/ RaisedAfterCommit(d)
                  /\ documents[d].chunk_count = Cardinality(Written(d))
                  /\ deletes[d].pc \in {"none", "found"} =>
                        ChunksOf(index, d) = Written(d)
            /\ documents[d].status # SUCCESSFUL => documents[d].chunk_count = 0

\* C15 as claimed: besides, a task that raised, at whatever step, leaves the row
\* with chunk_count 0.
C15_FailureLeavesZero ==
    /\ C15_Counted
    /\ \A d \in IngestDocs :
          (documents[d].exists /\ tasks[d].pc = "raised") => documents[d].chunk_count = 0

\* C15, amended: chunk_count stays 0 and the status "In progress" until the
\* index write has completed; a row with status Successful carries the number of
\* chunks its task wrote; a task that raised up to and including the commit of
\* finish_embedding leaves chunk_count 0 and the status "In progress", and a task
\* that raised in the refresh after that commit leaves the committed count.
C15_CountAfterIndexing ==
    /\ C15_Counted
    /\ \A d \in IngestDocs :
          (documents[d].exists /\ tasks[d].pc = "raised") =>
              IF RaisedAfterCommit(d)
              THEN /\ documents[d].status = SUCCESSFUL
                   /\ documents[d].chunk_count = Len(tasks[d].splits)
              ELSE /\ documents[d].status = IN_PROGRESS
                   /\ documents[d].chunk_count = 0

\* the task of one document raised in the refresh after its commit and left the
\* row Successful with its two chunks indexed and counted; the task of the other
\* raised after writing the index and left chunk_count 0
C15_Witness ==
    \E d, e \in IngestDocs :
        /\ documents[d].exists /\ documents[d].status = SUCCESSFUL
        /\ RaisedAfterCommit(d)
        /\ documents[d].chunk_count = 2
        /\ Cardinality(ChunksOf(index, d)) = 2
        /\ documents[e].exists /\ tasks[e].pc = "raised" /\ ~RaisedAfterCommit(e)
        /\ ChunksOf(index, e) # {}
        /\ documents[e].chunk_count = 0

\* C16 as claimed: the row of a document whose task raised has status Failed and
\* chunk_count 0.
C16_FailureMarksFailed ==
    \A d \in IngestDocs :
        (tasks[d].pc = "raised" /\ documents[d].exists) =>
            /\ documents[d].status = FAILED
            /\ documents[d].chunk_count = 0

\* C17 as claimed: with the background tasks run, every row created by an upload
\* eventually has a terminal status (unless it is deleted first).
C17_EventuallyTerminal ==
    \A d \in IngestDocs :
        [](documents[d].exists =>
              <>(~documents[d].exists \/ documents[d].status \in Terminal))

\* the upload of d produces its response in this step
UploadResponds(d) == uploads[d].status # "ok" /\ uploads'[d].status = "ok"

\* C18: the step in which an upload responds leaves the row "In progress" with
\* chunk_count 0, the blob stored, the task scheduled and not begun and no chunk
\* of the document in the index, and the response shows that row; a document has
\* chunks indexed or is Successful only after its upload has responded.
C18_UploadBeforeIngestion ==
    /\ [](\A d \in IngestDocs :
            (ChunksOf(index, d) # {}
               \/ (documents[d].exists /\ documents[d].status = SUCCESSFUL)
               \/ tasks[d].pc \notin {"none", "scheduled"})
            => uploads[d].status = "ok")
    /\ [][\A d \in IngestDocs :
            UploadResponds(d) =>
               /\ documents'[d].exists
               /\ documents'[d].status = IN_PROGRESS
               /\ documents'[d].chunk_count = 0
               /\ uploads'[d].response = to_response(d, documents'[d])
               /\ BlobName(d, documents'[d]) \in blobs'
               /\ tasks'[d].pc = "scheduled"
               /\ ChunksOf(index', d) = {}]_vars

\* the upload of a document has responded and its task has not begun, while the
\* task of another document, uploaded earlier, has finished
C18_Witness ==
    \E d, e \in IngestDocs :
        /\ uploads[d].status = "ok" /\ tasks[d].pc = "scheduled"
        /\ uploads[d].response.status = IN_PROGRESS
        /\ uploads[d].response.chunk_count = 0
        /\ ChunksOf(index, d) = {}
        /\ tasks[e].pc = "finished" /\ ChunksOf(index, e) # {}

\* the metadata keys every indexed chunk carries
TagKeys == {"document_id", "document_name", "project_id", "chunk_id", "chunk_index"}

\* chunk c carries the tags of the idx-th chunk of document d of the corpus
TaggedAs(c, d, idx) ==
    /\ TagKeys \subseteq DOMAIN c.metadata
    /\ c.metadata.document_id = ToString(d)
    /\ c.metadata.document_name = NameOf(d)
    /\ c.metadata.project_id = ToString(ProjectOf(d))
    /\ c.metadata.chunk_index = idx
    /\ c.metadata.chunk_id = ToString(d) \o ":" \o ToString(idx)
    /\ c.page_content = SplitsOf(d)[idx]

\* C22: every chunk enters the index already tagged with the id and name of its
\* document and the id of the document's project, chunk_index being its 1-based
\* position in the chunker's output and chunk_id "<id>:<chunk_index>"; the
\* chunks of a document in the index carry exactly the indexes 1..n, each once.
C22_ChunkMetadata ==
    /\ [](\A d \in IngestDocs :
            LET cs == ChunksOf(index, d)
            IN cs # {} =>
                 /\ {c.metadata.chunk_index : c \in cs} = 1..Len(SplitsOf(d))
                 /\ Cardinality(cs) = Len(SplitsOf(d))
                 /\ \A c \in cs : TaggedAs(c, d, c.metadata.chunk_index))
    /\ [][\A c \in index' \ index :
            \E d \in IngestDocs :
               /\ tasks[d].pc = "split"
               /\ documents[d].exists => /\ documents[d].name = c.metadata.document_name
                                         /\ ToString(documents[d].project_id) =
                                               c.metadata.project_id
               /\ \E idx \in 1..Len(tasks[d].splits) : TaggedAs(c, d, idx)]_vars

\* the two chunks of a document are in the index as "12:1" and "12:2", in the
\* chunker's order
C22_Witness ==
    \E c1, c2 \in index :
        /\ c1.metadata.chunk_id = "12:1" /\ c1.metadata.chunk_index = 1
        /\ c2.metadata.chunk_id = "12:2" /\ c2.metadata.chunk_index = 2
        /\ <<c1.page_content, c2.page_content>> = SplitsOf(12)
        /\ tasks[12].pc \in {"indexed", "finished"}

\* the background task of document d has ended
TaskEnded(pc) == pc \in {"returned", "raised", "finished"}

\* C28 as claimed: when delete_document of a document began while its ingestion was
\* scheduled and had not written its vectors, and both have finished (the store's
\* delete not having raised), the index holds no chunk of the document and the
\* document is not a Successful row.
C28_DeleteWinsOverIngestion ==
    \A d \in IngestDocs :
        (/\ deletes[d].pc = "done" /\ ~deletes[d].vectors_raised
         /\ deletes[d].before.task_pc \in {"scheduled", "loaded", "split"}
         /\ TaskEnded(tasks[d].pc)) =>
            /\ ChunksOf(index, d) = {}
            /\ ~(documents[d].exists /\ documents[d].status = SUCCESSFUL)

\* C30 as claimed: when delete_document of a document whose ingestion has ended
\* raises at any step after the 404 check, the chunks of the document in the
\* index, its blob and its row are as they were when the call began, so a row
\* that is Successful with chunk_count n has n chunks in the index.
C30_DeleteAllOrNothing ==
    \A d \in IngestDocs :
        (/\ deletes[d].pc = "error" /\ deletes[d].error # "NotFound"
         /\ TaskEnded(deletes[d].before.task_pc)) =>
            /\ ChunksOf(index, d) = deletes[d].before.chunks
            /\ (BlobName(d, deletes[d].document) \in blobs) = deletes[d].before.blob
            /\ documents[d] = deletes[d].document
            /\ documents[d].status = SUCCESSFUL =>
                   Cardinality(ChunksOf(index, d)) = documents[d].chunk_count

----------------------------------------------------------------------------
(* SpecSearch: direct calls of DocumentService.search *)

\* a direct call is drawn with its arguments in the initial state and then made
SearchCall ==
    /\ call.op = "search" /\ ~call.done
    /\ \E result \in search(index, call.query, call.project_id, call.document_ids, call.k) :
          call' = [op |-> "search", done |-> TRUE, query |-> call.query,
                   project_id |-> call.project_id,
                   document_ids |-> call.document_ids, k |-> call.k,
                   filter |-> search_filter(call.project_id, call.document_ids),
                   result |-> result]
    /\ UNCHANGED <<documents, index, chats, chat_documents, messages, turns, now, jobvars>>

InitSearch ==
    /\ InitStore
    /\ chats = [c \in ChatIds |-> NoRow]
    /\ requests = [c \in ChatIds |-> NoRequests]
    /\ chat_documents = {}
    /\ messages = {}
    /\ turns = [t \in Turns |-> NoTurn]
    /\ now = 0
    /\ \E query \in Texts, project_id \in ProjectIds, document_ids \in DocIdArgs, k \in KArgs :
          call = [op |-> "search", done |-> FALSE, query |-> query,
                  project_id |-> project_id, document_ids |-> document_ids, k |-> k]

NextSearch == SearchCall

SpecSearch == InitSearch /\ [][NextSearch]_vars

\* every metadata a chunk of the store could carry
MetadataUniverse ==
    [document_id : {str(d) : d \in DocIds}, project_id : {str(p) : p \in ProjectIds}]

\* C1: the filter of every search call admits only metadata of the queried
\* project and, when document_ids is non-empty, of the listed documents; every
\* returned chunk is a chunk of the index in that scope and at most k are returned.
C1_SearchScoped ==
    (call.op = "search" /\ call.done) =>
        LET ids == {str(d) : d \in Range(call.document_ids.val)}
        IN /\ \A md \in MetadataUniverse :
                 FilterMatches(call.filter, md) =>
                    /\ md.project_id = str(call.project_id)
                    /\ Truthy(call.document_ids) => md.document_id \in ids
           /\ Len(call.result) <= call.k
           /\ \A i \in 1..Len(call.result) :
                 /\ call.result[i] \in index
                 /\ call.result[i].metadata.project_id = str(call.project_id)
                 /\ Truthy(call.document_ids) =>
                        call.result[i].metadata.document_id \in ids

\* a search restricted to a document list that names a document of another
\* project, over an index holding chunks of both projects, returned chunks
C1_Witness ==
    /\ call.op = "search" /\ call.done
    /\ Truthy(call.document_ids)
    /\ \E d \in Range(call.document_ids.val) : ProjectOf(d) # call.project_id
    /\ \E c \in index : c.metadata.project_id # str(call.project_id)
    /\ Len(call.result) > 0

----------------------------------------------------------------------------
(* SpecAnswer: direct calls of AIService.retrieve_answer *)

\* chunks a retrieval may hand over: the chunks of the corpus, a chunk whose
\* metadata has a name and no document_id, and a chunk without metadata
RetrievedUniverse ==
    IndexOf(DocIds) \cup
    { [page_content |-> "t1", metadata |-> [document_name |-> NameOf(11)]],
      [page_content |-> "t2", metadata |-> EmptyDict] }

\* a history of n entries with the roles human, ai and one that is neither
LongHistory(n) ==
    [i \in 1..n |-> [role |-> IF i % 3 = 1 THEN "human"
                               ELSE IF i % 3 = 2 THEN "ai" ELSE "tool",
                      content |-> "h" \o ToString(i)]]

HistoryArgs ==
    { None, Some(<<>>),
      Some(<<[role |-> "human", content |-> "t1"]>>),
      Some(<<[role |-> "human", content |-> "t1"], [role |-> "ai", content |-> "answer-1"]>>),
      Some(LongHistory(HistoryWindow)), Some(LongHistory(HistoryWindow + 2)) }

AnswerCall ==
    /\ call.op = "retrieve_answer" /\ ~call.done
    /\ call' = [op |-> "retrieve_answer", done |-> TRUE, question |-> call.question,
                docs |-> call.docs, chat_history |-> call.chat_history,
                response |-> call.response,
                result |-> retrieve_answer(call.question, call.docs,
                                           call.chat_history, call.response)]
    /\ UNCHANGED <<documents, index, chats, chat_documents, messages, turns, now, jobvars>>

InitAnswer ==
    /\ StoreAfter(DocIds)
    /\ chats = [c \in ChatIds |-> NoRow]
    /\ requests = [c \in ChatIds |-> NoRequests]
    /\ chat_documents = {}
    /\ messages = {}
    /\ turns = [t \in Turns |-> NoTurn]
    /\ now = 0
    /\ \E question \in Texts, docs \in BoundedSeq(RetrievedUniverse, MaxRetrieved),
          chat_history \in HistoryArgs, response \in LLMResponses :
          call = [op |-> "retrieve_answer", done |-> FALSE, question |-> question,
                  docs |-> docs, chat_history |-> chat_history, response |-> response]

NextAnswer == AnswerCall

SpecAnswer == InitAnswer /\ [][NextAnswer]_vars

\* the source document of a chunk, as the claim keys it
C3_Key(doc) ==
    IF "document_id" \in DOMAIN doc.metadata /\ doc.metadata.document_id # ""
    THEN <<"id", doc.metadata.document_id>>
    ELSE <<"name", Get(doc.metadata, "document_name", "Unknown")>>
\* the position at which the document of docs[j] first appears
C3_First(docs, j) == CHOOSE i \in 1..j :
    /\ C3_Key(docs[i]) = C3_Key(docs[j])
    /\ \A h \in 1..(i - 1) : C3_Key(docs[h]) # C3_Key(docs[j])
\* the number of distinct documents among docs[1..First(j)]
C3_Number(docs, j) ==
    Cardinality({C3_First(docs, i) : i \in 1..C3_First(docs, j)})

\* C3: for a non-empty chunk list, the citation map numbers the distinct source
\* documents 1..n in order of first appearance, one number per document, and the
\* context entry of every chunk carries the number of its own document.
C3_CitationNumbering ==
    (call.op = "retrieve_answer" /\ call.done /\ Len(call.docs) > 0) =>
        LET docs == call.docs
            n == Cardinality({C3_First(docs, j) : j \in 1..Len(docs)})
        IN /\ Len(call.result.context_parts) = Len(docs)
           /\ \A j \in 1..Len(docs) :
                 call.result.context_parts[j] =
                    "[" \o ToString(C3_Number(docs, j)) \o "] "
                        \o Get(docs[j].metadata, "document_name", "Unknown")
                        \o "\n" \o docs[j].page_content
           /\ ~call.result.raised =>
                 /\ DOMAIN call.result.source_refs = {ToString(m) : m \in 1..n}
                 /\ \A j \in 1..Len(docs) :
                       LET f == C3_First(docs, j)
                           ref == call.result.source_refs[ToString(C3_Number(docs, j))]
                       IN /\ ref.document_id = Get(docs[f].metadata, "document_id", "")
                          /\ ref.document_title =
                                Get(docs[f].metadata, "document_name", "Unknown")

\* chunks of documents [A, B, A, C] were answered: three citations, "[1]" twice
C3_Witness ==
    /\ call.op = "retrieve_answer" /\ call.done /\ ~call.result.raised
    /\ Len(call.docs) = 4
    /\ C3_Key(call.docs[1]) = C3_Key(call.docs[3])
    /\ call.docs[1] # call.docs[3]
    /\ Cardinality({C3_Key(call.docs[j]) : j \in 1..4}) = 3
    /\ DOMAIN call.result.source_refs = {"1", "2", "3"}
    /\ SubSeq(call.result.context_parts[3], 1, 3) = "[1]"

\* C4: an empty chunk list is answered with the fixed insufficient-information
\* text and an empty citation map, without invoking the language model, whatever
\* the question, the history and the outcome a model call would have had.
C4_EmptyRetrieval ==
    (call.op = "retrieve_answer" /\ call.done /\ Len(call.docs) = 0) =>
        /\ ~call.result.raised
        /\ call.result.answer = INSUFFICIENT
        /\ call.result.source_refs = EmptyDict
        /\ call.result.llm_calls = 0

\* an empty chunk list was answered while a model call would have raised and a
\* history was supplied
C4_Witness ==
    /\ call.op = "retrieve_answer" /\ call.done /\ Len(call.docs) = 0
    /\ call.response.kind = "raise"
    /\ Truthy(call.chat_history)
    /\ call.result.answer = INSUFFICIENT

----------------------------------------------------------------------------
(* SpecHistory: one turn in a chat that already holds messages *)

\* the numbers of messages the chat holds before the turn: none, one, around the
\* window of the model input and around the default page limit of the repository
PriorCounts ==
    {0, 1, HistoryWindow - 1, HistoryWindow, HistoryWindow + 1,
     DefaultLimit - 1, DefaultLimit} \cup {DefaultLimit + i : i \in 1..MaxOver}

\* the i-th message of the chat: questions and answers of earlier turns in turn
PriorMessage(c, i) ==
    IF i % 2 = 1
    THEN Message(0 - ((i + 1) \div 2), c, "q" \o ToString((i + 1) \div 2), HUMAN, 2 + i)
    ELSE Message(0 - (i \div 2), c, "a" \o ToString(i \div 2), AI, 2 + i)

HistoryTurn == 1

InitHistory ==
    /\ StoreAfter(DocIds)
    /\ chats = [c \in ChatIds |->
                  [exists |-> TRUE, project_id |-> 1, name |-> "Budget questions",
                   created_at |-> 1, updated_at |-> 2]]
    /\ requests = [c \in ChatIds |-> CreatedRequests]
    /\ chat_documents = {}
    /\ turns = [t \in Turns |-> NoTurn]
    /\ call = NoCall
    /\ \E n \in PriorCounts :
          /\ messages = {PriorMessage(c, i) : c \in ChatIds, i \in 1..n}
          /\ now = 2 + n

NextHistory ==
    \/ \E c \in ChatIds, content \in Texts : BeginTurn(HistoryTurn, c, content)
    \/ CommitHuman(HistoryTurn)
    \/ RefreshHuman(HistoryTurn)
    \/ ReloadChat(HistoryTurn)
    \/ GetDocumentIds(HistoryTurn)
    \/ Search(HistoryTurn)
    \/ GetHistory(HistoryTurn)
    \/ RetrieveAnswer(HistoryTurn)
    \/ StageAI(HistoryTurn)
    \/ AutoTitle(HistoryTurn)
    \/ Commit(HistoryTurn)
    \/ RefreshAI(HistoryTurn)
    \/ RefreshChat(HistoryTurn)

SpecHistory == InitHistory /\ [][NextHistory]_vars

\* the messages of the chat persisted when turn t read its history, oldest first
PersistedAt(t) ==
    LET rows == {m \in messages : /\ m.chat_id = turns[t].chat_id
                                  /\ m.created_at <= turns[t].human.created_at}
    IN CHOOSE r \in get_by_chat(rows, turns[t].chat_id, 0, Cardinality(rows)) : TRUE

\* C20 as claimed: the history entries of the model input of a turn are the most
\* recent persisted messages of the chat, at most ten, oldest first, with their
\* roles and contents.
C20_WindowIsMostRecent ==
    \A t \in Turns :
        turns[t].llm_calls = 1 =>
            LET input == LLMInput(t)
                window == SubSeq(input, 2, Len(input) - 1)
                recent == LastN(PersistedAt(t), HistoryWindow)
            IN /\ Len(window) = Len(recent)
               /\ \A i \in 1..Len(window) :
                     /\ window[i].content = recent[i].content
                     /\ window[i].role = recent[i].sender_type

----------------------------------------------------------------------------
(* Properties of the model input of AIService.retrieve_answer *)

\* C21: over a non-empty chunk list and a non-empty history h the model is invoked
\* once with the system instruction carrying the joined context, then the last
\* min(10, |h|) entries of h in their order, a human entry as a human turn and any
\* other as an AI turn, then the question as a human turn.
C21_ModelInput ==
    (/\ call.op = "retrieve_answer" /\ call.done
     /\ Len(call.docs) > 0 /\ Truthy(call.chat_history)) =>
        LET h == call.chat_history.val
            n == IF Len(h) < 10 THEN Len(h) ELSE 10
            input == call.result.llm_input
        IN /\ call.result.llm_calls = 1
           /\ Len(input) = n + 2
           /\ input[1] = [role |-> "system",
                          content |-> SYSTEM_PROMPT(Join(call.result.context_parts,
                                                         SEPARATOR))]
           /\ \A j \in 1..n :
                 /\ input[1 + j].content = h[Len(h) - n + j].content
                 /\ input[1 + j].role = IF h[Len(h) - n + j].role = "human"
                                        THEN "human" ELSE "ai"
           /\ input[n + 2] = [role |-> "human", content |-> call.question]

\* a history of twelve entries was handed over with a chunk list: the model input
\* starts the window at the third entry, which is neither human nor ai
C21_Witness ==
    /\ call.op = "retrieve_answer" /\ call.done
    /\ Len(call.docs) > 0
    /\ Truthy(call.chat_history) /\ Len(call.chat_history.val) = 12
    /\ call.chat_history.val[3].role = "tool"
    /\ Len(call.result.llm_input) = 12
    /\ call.result.llm_input[2] = [role |-> "ai", content |-> "h3"]

----------------------------------------------------------------------------
(* SpecExtract: direct calls of DocumentService._convert_to_documents *)

\* the declared types tried: the allowed ones, an unknown one and none
FileTypes == {"pdf", "txt", "md", "docx", ""}

\* what a page of a file may hold: nothing, whitespace only, text
PageTexts == {"", " \n", " ", "p1", " p2 "}

\* the content of a file: the texts of its pages, which a text loader reads as
\* one text
Contents == BoundedSeq(PageTexts, MaxPages)
TextOf(content) == Join(content, "\n")

\* tempfile.NamedTemporaryFile(suffix=suffix).name
TmpName(file_type) == "/tmp/tmpfile" \o "." \o file_type

page_tag_renumbered(page_number, emitted) == emitted + 1

\* "page": page_number + 1, page_number being the 0-based position of the page
page_tag(page_number, emitted) == page_number + 1

\* lines 117-129: the loop over enumerate(doc) from page i on; a page is kept
\* when text.strip() is not empty
RECURSIVE PdfLoop(_, _, _, _)
PdfLoop(pages, i, filename, units) ==
    IF i > Len(pages) THEN units
    ELSE LET text == pages[i]
             page_number == i - 1
         IN PdfLoop(pages, i + 1, filename,
               IF Strip(text, WHITESPACE) # ""
               THEN Append(units,
                      [page_content |-> text,
                       metadata |-> [source |-> filename,
                                     page |-> page_tag(page_number, Len(units))]])
               ELSE units)

\* TextLoader(path).load(): one document holding the text of the file
TextLoader(path, content) ==
    <<[page_content |-> TextOf(content), metadata |-> [source |-> path]]>>

\* DocumentService._convert_to_documents; `readable` is whether the library
\* reading the bytes accepts them: fitz.open (line 114) and loader.load()
\* (line 138) raise on content they cannot read
convert_to_documents(content, file_type, filename, readable) ==
    IF ~readable
    THEN [raised |-> TRUE, documents |-> <<>>]
    ELSE IF file_type = "pdf"
    THEN [raised |-> FALSE, documents |-> PdfLoop(content, 1, filename, <<>>)]
    ELSE IF file_type \in {"txt", "md"}
    THEN [raised |-> FALSE, documents |-> TextLoader(TmpName(file_type), content)]
    ELSE [raised |-> FALSE, documents |-> TextLoader(TmpName(file_type), content)]

ConvertCall ==
    /\ call.op = "convert_to_documents" /\ ~call.done
    /\ call' = [op |-> "convert_to_documents", done |-> TRUE, content |-> call.content,
                file_type |-> call.file_type, filename |-> call.filename,
                readable |-> call.readable,
                result |-> convert_to_documents(call.content, call.file_type,
                                                call.filename, call.readable)]
    /\ UNCHANGED <<documents, index, chats, chat_documents, messages, turns, now, jobvars>>

InitExtract ==
    /\ StoreAfter({})
    /\ chats = [c \in ChatIds |-> NoRow]
    /\ requests = [c \in ChatIds |-> NoRequests]
    /\ chat_documents = {}
    /\ messages = {}
    /\ turns = [t \in Turns |-> NoTurn]
    /\ now = 0
    /\ \E content \in Contents, file_type \in FileTypes, readable \in BOOLEAN :
          call = [op |-> "convert_to_documents", done |-> FALSE, content |-> content,
                  file_type |-> file_type, filename |-> "file." \o file_type,
                  readable |-> readable]

NextExtract == ConvertCall

SpecExtract == InitExtract /\ [][NextExtract]_vars

\* C23 as claimed: for a declared type other than pdf, txt and md the extractor
\* raises and emits no unit.
C23_UnknownTypeRejected ==
    (/\ call.op = "convert_to_documents" /\ call.done
     /\ call.file_type \notin {"pdf", "txt", "md"}) =>
        /\ call.result.raised
        /\ call.result.documents = <<>>

\* a text that is empty or holds whitespace only
Blank(text) == \A k \in 1..Len(text) : SubSeq(text, k, k) \in WHITESPACE
\* the positions of the pages that are not blank
KeptPages(pages) == {i \in 1..Len(pages) : ~Blank(pages[i])}
\* the j-th of them
KeptPage(pages, j) ==
    CHOOSE i \in KeptPages(pages) : Cardinality({k \in KeptPages(pages) : k < i}) = j - 1

\* C24: for a pdf that can be opened the extractor emits one unit for every page
\* that is not blank, in page order, each holding the text of its page and tagged
\* with the page's 1-based position in the file; no unit is blank.
C24_PdfUnits ==
    (/\ call.op = "convert_to_documents" /\ call.done /\ call.file_type = "pdf"
     /\ call.readable) =>
        LET pages == call.content
            units == call.result.documents
        IN /\ ~call.result.raised
           /\ Len(units) = Cardinality(KeptPages(pages))
           /\ \A j \in 1..Len(units) :
                 /\ units[j].metadata.page = KeptPage(pages, j)
                 /\ units[j].page_content = pages[KeptPage(pages, j)]
                 /\ units[j].metadata.source = call.filename
                 /\ ~Blank(units[j].page_content)

\* a pdf of three pages whose second page is blank was extracted: two units,
\* tagged 1 and 3
C24_Witness ==
    /\ call.op = "convert_to_documents" /\ call.done /\ call.file_type = "pdf"
    /\ Len(call.content) = 3
    /\ Blank(call.content[2]) /\ call.content[2] # ""
    /\ Len(call.result.documents) = 2
    /\ call.result.documents[1].metadata.page = 1
    /\ call.result.documents[2].metadata.page = 3

----------------------------------------------------------------------------
(* SpecTitle: direct calls of AIService.generate_chat_title *)

\* texts of 10, 50 and 200 characters
X10 == "0123456789"
X50 == X10 \o X10 \o X10 \o X10 \o X10
X200 == X50 \o X50 \o X50 \o X50

\* first messages of 2, 199, 200 and 201 characters
TitleMessages == {"t1", SubSeq(X200, 1, 199), X200, X200 \o "Z"}

\* what the model may answer: nothing, a short title and texts of 50, 51 and 60
\* characters, each bare, quoted, quoted inside whitespace and with whitespace
\* inside the quotes
TitleBases == {"", "Title A", X50, X50 \o "1", X50 \o X10}
TitleTexts ==
    UNION { {b, "\"" \o b \o "\"", "'" \o b \o "'", " \"" \o b \o "\"\n",
             "" \o b \o " ", "\" " \o b \o " \""} : b \in TitleBases }
TitleCallResponses == {[kind |-> "ok", content |-> c] : c \in TitleTexts} \cup {[kind |-> "raise"]}

TitleCall ==
    /\ call.op = "generate_chat_title" /\ ~call.done
    /\ call' = [op |-> "generate_chat_title", done |-> TRUE,
                first_message |-> call.first_message, response |-> call.response,
                result |-> generate_chat_title(call.first_message, call.response)]
    /\ UNCHANGED <<documents, index, chats, chat_documents, messages, turns, now, jobvars>>

InitTitle ==
    /\ StoreAfter({})
    /\ chats = [c \in ChatIds |-> NoRow]
    /\ requests = [c \in ChatIds |-> NoRequests]
    /\ chat_documents = {}
    /\ messages = {}
    /\ turns = [t \in Turns |-> NoTurn]
    /\ now = 0
    /\ \E first_message \in TitleMessages, response \in TitleCallResponses :
          call = [op |-> "generate_chat_title", done |-> FALSE,
                  first_message |-> first_message, response |-> response]

NextTitle == TitleCall

SpecTitle == InitTitle /\ [][NextTitle]_vars

\* a character the claim has stripped from both ends of the model's text
Surrounding(ch) == ch \in WHITESPACE \cup QUOTES
\* the text without the surrounding whitespace and quotes
RECURSIVE Bare(_)
Bare(text) ==
    IF Len(text) > 0 /\ Surrounding(SubSeq(text, 1, 1)) THEN Bare(SubSeq(text, 2, Len(text)))
    ELSE IF Len(text) > 0 /\ Surrounding(SubSeq(text, Len(text), Len(text)))
    THEN Bare(SubSeq(text, 1, Len(text) - 1))
    ELSE text

\* C25 as claimed: for every text the model returns the title is not empty and at
\* most 50 characters long: it is the text without its surrounding whitespace and
\* quotes, cut to its first 47 characters and "..." when that is longer than 50
\* and "New Chat" when that is empty; the prompt holds the first 200 characters
\* of the first message and no more of it.
C25_TitleNormalised ==
    (call.op = "generate_chat_title" /\ call.done /\ call.response.kind = "ok") =>
        LET bare == Bare(call.response.content)
            title == call.result.title
            empty_prompt == generate_chat_title("", call.response).prompt
        IN /\ ~call.result.raised
           /\ title # "" /\ Len(title) <= 50
           /\ title = IF Len(bare) > 50 THEN SubSeq(bare, 1, 47) \o "..."
                      ELSE IF bare = "" THEN "New Chat" ELSE bare
           /\ Len(call.result.prompt) - Len(empty_prompt) =
                 IF Len(call.first_message) < 200 THEN Len(call.first_message) ELSE 200

----------------------------------------------------------------------------
(* SpecConcurrent: two send_message requests of one chat whose steps interleave.
   Within one event loop a request yields only at `await search`; worker
   processes sharing the database interleave at every statement, so every
   interleaving of the steps is allowed here. *)

ConcurrentTurns == {1, 2}

\* a request that arrives while earlier ones may still be running (the requests
\* are numbered in the order of their arrival)
BeginConcurrent(t, c, content) ==
    /\ \A u \in ConcurrentTurns : u < t => turns[u].pc # "idle"
    /\ \E tick \in 0..1 :
          \* two requests that overlap may read the clock at one instant
          /\ tick = 0 => \E u \in ConcurrentTurns : InProgress(u)
          /\ StartTurnAt(t, c, content, tick)

InitConcurrent ==
    /\ StoreAfter(DocIds)
    /\ chats = [c \in ChatIds |->
                  [exists |-> TRUE, project_id |-> 1, name |-> NewChat,
                   created_at |-> 1, updated_at |-> 2]]
    /\ requests = [c \in ChatIds |-> CreatedRequests]
    /\ chat_documents = {}
    /\ messages = {}
    /\ turns = [t \in Turns |-> NoTurn]
    /\ now = 2
    /\ call = NoCall

NextConcurrent ==
    \/ \E t \in ConcurrentTurns, c \in ChatIds, content \in Texts :
          BeginConcurrent(t, c, content)
    \/ \E t \in ConcurrentTurns : CommitHuman(t)
    \/ \E t \in ConcurrentTurns : RefreshHuman(t)
    \/ \E t \in ConcurrentTurns : ReloadChat(t)
    \/ \E t \in ConcurrentTurns : GetDocumentIds(t)
    \/ \E t \in ConcurrentTurns : Search(t)
    \/ \E t \in ConcurrentTurns : GetHistory(t)
    \/ \E t \in ConcurrentTurns : RetrieveAnswer(t)
    \/ \E t \in ConcurrentTurns : StageAI(t)
    \/ \E t \in ConcurrentTurns : AutoTitle(t)
    \/ \E t \in ConcurrentTurns : Commit(t)
    \/ \E t \in ConcurrentTurns : RefreshAI(t)
    \/ \E t \in ConcurrentTurns : RefreshChat(t)

SpecConcurrent == InitConcurrent /\ [][NextConcurrent]_vars

MessagesOf(c, sender) == {m \in messages : m.chat_id = c /\ m.sender_type = sender}

\* C26: with two turns of a chat interleaving, messages are only ever added, the
\* AI message of a turn is committed only when the turn's own human message is,
\* and once both turns have returned the chat holds exactly the two human
\* messages and the two AI messages of the two turns, each with its turn's text.
C26_NoMessageLost ==
    /\ [](\A c \in ChatIds :
            (\A t \in ConcurrentTurns : turns[t].pc = "done" /\ turns[t].chat_id = c) =>
               /\ MessagesOf(c, HUMAN) = {turns[t].human : t \in ConcurrentTurns}
               /\ MessagesOf(c, AI) = {turns[t].pending_ai : t \in ConcurrentTurns}
               /\ Cardinality(MessagesOf(c, HUMAN)) = 2
               /\ Cardinality(MessagesOf(c, AI)) = 2
               /\ \A t \in ConcurrentTurns :
                     /\ turns[t].human.content = turns[t].content
                     /\ turns[t].pending_ai.content = turns[t].answer
                     /\ turns[t].pending_ai.sender_type = AI)
    /\ [][/\ messages \subseteq messages'
          /\ \A t \in ConcurrentTurns :
                (~HasMessage(messages, t, AI) /\ HasMessage(messages', t, AI)) =>
                    HasMessage(messages, t, HUMAN)]_vars

\* both turns returned, and the first to answer had read a history holding the two
\* human messages and no AI message: both questions were persisted before either
\* answer
C26_Witness ==
    /\ \A t \in ConcurrentTurns : turns[t].pc = "done"
    /\ \E t \in ConcurrentTurns :
          /\ Len(turns[t].history) = 2
          /\ \A i \in 1..2 : turns[t].history[i].role = HUMAN
    /\ Cardinality(messages) = 4

----------------------------------------------------------------------------
(* SpecScope: a chat created with the document scope ScopeDocs takes a turn
   while documents of its project are uploaded, ingested and deleted *)

ScopeDocs == {11}
Unloaded == {12}

\* documents 11 and 13 are ingested, document 12 is not uploaded yet, and the chat
\* was created by create_chat with document_ids = [11]
InitScope ==
    /\ documents = [d \in DocIds |-> IF d \in Unloaded THEN NoRow ELSE DocumentRow(d, TRUE)]
    /\ index = IndexOf(DocIds \ Unloaded)
    /\ blobs = {BlobName(d, DocumentRow(d, FALSE)) : d \in DocIds \ Unloaded}
    /\ tasks = [d \in DocIds |-> IF d \in Unloaded THEN NoTask ELSE FinishedTask(d)]
    /\ uploads = [d \in DocIds |->
                    IF d \in Unloaded THEN NoUpload
                    ELSE [status |-> "ok",
                          response |-> to_response(d, DocumentRow(d, FALSE))]]
    /\ deletes = [d \in DocIds |-> NoDelete]
    /\ projects = [p \in ProjectIds |-> TRUE]
    /\ chats = [c \in ChatIds |->
                  [exists |-> TRUE, project_id |-> 1, name |-> "Budget questions",
                   created_at |-> 1, updated_at |-> 2]]
    /\ requests = [c \in ChatIds |-> CreatedRequests]
    /\ chat_documents = {<<c, d>> : c \in ChatIds, d \in ScopeDocs}
    /\ messages = {}
    /\ turns = [t \in Turns |-> NoTurn]
    /\ now = 2
    /\ call = NoCall

NextScope ==
    \/ NextIngest
    \/ \E c \in ChatIds, content \in Texts : BeginTurn(HistoryTurn, c, content)
    \/ CommitHuman(HistoryTurn)
    \/ RefreshHuman(HistoryTurn)
    \/ ReloadChat(HistoryTurn)
    \/ GetDocumentIds(HistoryTurn)
    \/ Search(HistoryTurn)
    \/ GetHistory(HistoryTurn)
    \/ RetrieveAnswer(HistoryTurn)
    \/ StageAI(HistoryTurn)
    \/ AutoTitle(HistoryTurn)
    \/ Commit(HistoryTurn)
    \/ RefreshAI(HistoryTurn)
    \/ RefreshChat(HistoryTurn)

SpecScope == InitScope /\ [][NextScope]_vars

\* C27 as claimed: a turn of the chat created with the scope ScopeDocs retrieves
\* only chunks of the documents of ScopeDocs, whatever was uploaded or deleted
\* before its search.
C27_ScopeNeverWidens ==
    \A t \in Turns :
        Searched(t) =>
            \A i \in 1..Len(turns[t].docs) :
                turns[t].docs[i].metadata.document_id \in {str(d) : d \in ScopeDocs}

----------------------------------------------------------------------------
(* SpecProject: uploads, ingestion and document deletes of a project, and
   delete_project *)

\* routes.projects.delete_project: 404 when the project is missing; otherwise
\* ProjectRepository.delete commits the removal of the project row, and its
\* documents and chats (with their messages and association rows) go with it.
\* Neither the vector index nor the blob container is touched.
DeleteProject(p) ==
    /\ projects[p]
    /\ \E committed \in BOOLEAN :
          IF committed
          THEN /\ projects' = [projects EXCEPT ![p] = FALSE]
               /\ documents' = [d \in DOMAIN documents |->
                                  IF documents[d].exists /\ documents[d].project_id = p
                                  THEN NoRow ELSE documents[d]]
               /\ chats' = [c \in DOMAIN chats |->
                              IF chats[c].exists /\ chats[c].project_id = p
                              THEN NoRow ELSE chats[c]]
               /\ messages' = {m \in messages : chats'[m.chat_id].exists}
               /\ chat_documents' = {a \in chat_documents :
                                        chats'[a[1]].exists /\ documents'[a[2]].exists}
          ELSE UNCHANGED <<projects, documents, chats, messages, chat_documents>>
    /\ UNCHANGED <<index, turns, now, call, blobs, tasks, uploads, deletes, requests>>

\* the projects that are created while documents are uploaded and deleted: a
\* new project gets an id no project had before
NewProjects == ProjectIds \ {ProjectOf(d) : d \in IngestDocs}

\* routes.projects.create_project: ProjectRepository.create commits the row of a
\* project with a fresh id; `projects` holds the projects created so far
CreateProject(p) ==
    /\ p \notin DOMAIN projects
    /\ projects' = [q \in DOMAIN projects \cup {p} |->
                       IF q = p THEN TRUE ELSE projects[q]]
    /\ UNCHANGED <<documents, index, chats, chat_documents, messages, turns, now, call,
                   blobs, tasks, uploads, deletes, requests>>

\* the project the documents are uploaded to exists, no other does yet
InitProject == InitIngestIn(ProjectIds \ NewProjects)

NextProject ==
    \/ NextIngest
    \/ \E p \in NewProjects : CreateProject(p)
    \/ \E p \in DOMAIN projects : DeleteProject(p)

SpecProject == InitProject /\ [][NextProject]_vars

\* C29 as claimed: once the background task of a document has ended, and no
\* delete_document was called for it, every chunk of it in the vector index
\* names a document row that still exists, also after delete_project.
C29_NoOrphanVectors ==
    \A d \in IngestDocs :
        (TaskEnded(tasks[d].pc) /\ deletes[d].pc = "none" /\ ChunksOf(index, d) # {}) =>
            documents[d].exists

====
